---- MODULE Spec2Model ----
(***************************************************************************)
(* modecache: a cache-through controller (CacheCtr.Wrap), its three        *)
(* policies (EasyPloy, ReuseCachePloyIgnoreError,                          *)
(* FirstCachePolyIgnoreError), the single-flight group and the sharded     *)
(* mutex they use, over a store with a TTL and a source function.          *)
(*                                                                         *)
(* Time is counted in ticks, TicksPerSec ticks to the second, so that      *)
(* durations below one second and durations that are not a whole number    *)
(* of seconds exist.  time.Now().Unix() and int64(d.Seconds()) truncate    *)
(* to whole seconds, as in the code.                                       *)
(***************************************************************************)
EXTENDS Integers, FiniteSets, Sequences, TLC

VARIABLES cfg, now, store, sg, mu, bg, pc, ckey, loc, sawStored, last,
          queryCount, firstTs, cstore, ctx, bgctx, hist, ctrStore, fc, plug,
          circuits, lk, rcall

vars == <<cfg, now, store, sg, mu, bg, pc, ckey, loc, sawStored, last,
          queryCount, firstTs, cstore, ctx, bgctx, hist, ctrStore, fc, plug,
          circuits, lk, rcall>>

\* the registry of the facade and the plugin chain, which Wrap on one
\* controller without plugins leaves alone
sideVars == <<ctrStore, fc, plug, circuits, lk, rcall>>
storeVars == <<store, cstore, hist>>

(* ------------------------------ bounds -------------------------------- *)
NumCallers == 2
TicksPerSec == 2
MaxNow == 6
MaxBg == 2
MaxQueryCount == 2
MaxPlugins == 2
MaxMaxRetries == 1
MaxThreshold == 2

(* ------------------------- program constants -------------------------- *)
KeepTTL == -1
Mutex128Shards == 128

Callers == 1..NumCallers
AllKeys == {"k2", "k3", "k64"}
Policies == {"Easy", "Reuse", "First"}
\* 0.5 s, 1 s and 1.5 s when TicksPerSec = 2
DSet == {1, TicksPerSec, TicksPerSec + 1}
StartNow == TicksPerSec

\* T is a pointer type: NilT is the nil pointer (the zero value of T),
\* SrcVals are the non-nil values the source function can return.
NilT == "nil"
ZeroT == NilT
SrcVals == {"v1", "v2"}
Values == SrcVals \cup {NilT}

\* The value types of the controllers: *User points to a struct whose
\* fields are all exported; the struct of *struct{ test string } has one
\* unexported field: "t1" is &{test: "test"}, "t0" is &{test: ""}.
TypeUser == "*User"
TypeTest == "*struct{ test string }"
TestVals == {"t0", "t1"}
ValuesOf(T) == IF T = TypeUser THEN Values ELSE TestVals \cup {NilT}

\* the stores: cacheStore, redisStore, RedisHashStore
StoreKinds == {"cache", "redis", "hash"}
\* the hash field a RedisHashStore was built with
HashKey == "k2"

\* context.Background(), and the contexts a caller can pass: store says
\* that the context carries a Store under CtxStorageKey
NoCtx == [store |-> FALSE, cancelled |-> FALSE]
NoHist == [set |-> FALSE, val |-> NilT, ts |-> 0, at |-> 0, orphan |-> FALSE,
           refresh |-> FALSE]

NoEntry == [absent |-> TRUE]
NoCall == [free |-> TRUE]
NoLoc == [unset |-> TRUE]
NoLast == [none |-> TRUE]
\* no call of a wrapped loader is under way
NoLd == [pc |-> "idle", streak |-> 0]
\* a task that uses a Mutex128 and holds nothing
NoLk == [pc |-> "idle", shard |-> 0, held |-> {}]
\* the cstate getCircuitState creates
NoCircuit == [failures |-> 0, circuitOpen |-> FALSE, openedAt |-> 0]
NoKey == "-"
NoTs == [set |-> FALSE, ts |-> 0]
NoExpiration == -1

(* ------------------------------ helpers ------------------------------- *)
\* time.Now().Unix()
Unix(t) == t \div TicksPerSec

\* int64(expireTime.Seconds())
Seconds(d) == d \div TicksPerSec

isNil(v) == v = NilT

\* crc32.ChecksumIEEE of the key, for the keys of the model
hashCrc32ToUint(k) == CASE k = "k2" -> 252178707
                        [] k = "k3" -> 2013315461
                        [] k = "k64" -> 325818387

\* a Mutex128 with one mutex for every shard key
ShardOfM(shard) == shard
\* rw.mu[shard%Mutex128Shards]
ShardOf(shard) == shard % Mutex128Shards

\* a TryLock that reports every shard free
TryLockM(shard) == TRUE
\* Mutex128.TryLock: whether the shard's mutex was free
TryLock(shard) == ShardOf(shard) \notin mu

(* ------------------------------- codec -------------------------------- *)
\* JSON texts are modelled by their structure: null, or an object with the
\* exported fields of the value.
\* sonic.MarshalString of a value of T: unexported fields are left out
MarshalT(v) ==
    IF isNil(v) THEN [null |-> TRUE, fields |-> <<>>]
    ELSE IF v \in TestVals THEN [null |-> FALSE, fields |-> <<>>]
    ELSE [null |-> FALSE, fields |-> <<v>>]

\* sonic.Unmarshal into a T: null gives nil; an object gives a pointer to a
\* struct whose exported fields are set and whose other fields are zero
UnmarshalT(js) ==
    IF js.null THEN NilT
    ELSE IF js.fields = <<>> THEN "t0"
    ELSE js.fields[1]

\* sonic.MarshalString(&box)
MarshalString(box) == [Timestamp |-> box.Timestamp, T |-> MarshalT(box.T)]

\* sonic.Unmarshal([]byte(strVal), box)
Unmarshal(strVal) == [Timestamp |-> strVal.Timestamp, T |-> UnmarshalT(strVal.T)]

\* the configurations in which the history keeps the stores of a call's
\* callers and whether a refresh made a write
Traced == "trace" \in DOMAIN cfg

(* ------------------------------- store -------------------------------- *)
\* the Store a call with context c uses: the one the context carries under
\* CtxStorageKey, else the controller's
StoreOfM(c) == "default"
StoreOf(c) == IF c.store THEN "ctx" ELSE "default"

KindOf(s) == IF s = "ctx" THEN cfg.ckind ELSE cfg.kind
DataOf(s) == IF s = "ctx" THEN cstore ELSE store

\* Store.IsDirectStore
IsDirectStore(kind) == kind = "cache"

\* the place a store keeps key k in: RedisHashStore ignores the key and
\* uses the one hash field it was built with
Slot(s, k) == IF KindOf(s) = "hash" THEN HashKey ELSE k

\* go-cache item expiry: expired once the clock is past Expiration
Expired(e) == e.expireAt # NoExpiration /\ now > e.expireAt

\* redis expiry: the key is gone once its time to live has run out
RedisExpired(e) == e.expireAt # NoExpiration /\ now >= e.expireAt

Gone(kind, e) == IF kind = "cache" THEN Expired(e) ELSE RedisExpired(e)

\* Store.Get; fail: the store answers with a transport error
StoreGet(s, k, fail) ==
    LET e == DataOf(s)[Slot(s, k)] IN
    IF fail THEN [value |-> NoEntry, err |-> "ErrStore"]
    ELSE IF e = NoEntry \/ Gone(KindOf(s), e)
         THEN [value |-> NoEntry, err |-> "ErrKeyNonExistent"]
         ELSE [value |-> e, err |-> "nil"]

\* a Set that keeps every entry for ever
StoreSetM(box, ttl) ==
    [T |-> box.T, Timestamp |-> box.Timestamp, expireAt |-> NoExpiration]

\* cacheStore.Set: the entry the store holds after Set(key, box, ttl)
StoreSet(box, ttl) ==
    [T |-> box.T, Timestamp |-> box.Timestamp,
     expireAt |-> IF ttl = KeepTTL THEN NoExpiration ELSE now + ttl]

usePrecise(dur) == dur < TicksPerSec \/ dur % TicksPerSec # 0

formatSec(dur) ==
    IF dur > 0 /\ dur < TicksPerSec THEN 1 ELSE dur \div TicksPerSec

\* the time to live, in ticks, that "px formatMs(ttl)" or "ex formatSec(ttl)"
\* asks redis for; a tick is a whole number of milliseconds
RedisTTL(ttl) == IF usePrecise(ttl) THEN ttl ELSE formatSec(ttl) * TicksPerSec

\* redisStore.Set: SET key data, with px/ex only if ttl > 0
redisSet(strVal, ttl) ==
    [str |-> strVal,
     expireAt |-> IF ttl > 0 THEN now + RedisTTL(ttl) ELSE NoExpiration]

\* RedisHashStore.Set: HSET, then (P)EXPIRE on the whole hash only if
\* ttl > 0; old is what the hash held
hashSet(old, strVal, ttl) ==
    [str |-> strVal,
     expireAt |-> IF ttl > 0 THEN now + RedisTTL(ttl)
                  ELSE IF old = NoEntry \/ RedisExpired(old) THEN NoExpiration
                  ELSE old.expireAt]

NewBoxZ(value) == [T |-> value, Timestamp |-> 0]

\* box := AbcBox[T]{T: value, Timestamp: int(time.Now().Unix())}
NewBox(value) == [T |-> value, Timestamp |-> Unix(now)]

\* CacheCtr.SetStore from store.Set on: the contents of the store the call
\* uses after the Set of the box; fail: the store rejects the write
SetStoreBox(c, k, box, ttl, fail) ==
    LET s == StoreOf(c)
        d == DataOf(s)
        slot == Slot(s, k)
    IN
    IF fail THEN d
    ELSE IF IsDirectStore(KindOf(s)) THEN [d EXCEPT ![slot] = StoreSet(box, ttl)]
    ELSE IF KindOf(s) = "redis"
         THEN [d EXCEPT ![slot] = redisSet(MarshalString(box), ttl)]
         ELSE [d EXCEPT ![slot] = hashSet(d[slot], MarshalString(box), ttl)]

\* CacheCtr.SetStore: the contents of the store the call uses after boxing
\* value with the current second and setting the box
SetStore(c, k, value, ttl, fail) == SetStoreBox(c, k, NewBox(value), ttl, fail)

\* CacheCtr.GetStore
GetStore(c, k, fail) ==
    LET s == StoreOf(c)
        g == StoreGet(s, k, fail)
    IN
    IF g.err # "nil" THEN [T |-> ZeroT, Timestamp |-> 0, err |-> g.err]
    ELSE IF IsDirectStore(KindOf(s))
         THEN [T |-> g.value.T, Timestamp |-> g.value.Timestamp, err |-> "nil"]
         ELSE LET box == Unmarshal(g.value.str) IN
              [T |-> box.T, Timestamp |-> box.Timestamp, err |-> "nil"]

\* the cache loader built by buildTryLoadingCache
loadCache(c, k, fail) ==
    LET g == GetStore(c, k, fail) IN
    IF g.err # "nil" THEN [value |-> NilT, timestamp |-> 0, err |-> g.err]
    ELSE IF isNil(g.T) THEN [value |-> NilT, timestamp |-> 0, err |-> "ErrNil"]
    ELSE [value |-> g.T, timestamp |-> g.Timestamp, err |-> "nil"]

\* a source loader that returns a nil value as it is
loadQueryM(out) ==
    IF out.err # "nil" THEN [val |-> NilT, err |-> out.err]
    ELSE [val |-> out.val, err |-> "nil"]

\* the (value, error) the source loader built by buildTryLoadingQuery returns
\* when the source function returned out
loadQuery(out) ==
    IF out.err # "nil" THEN [val |-> NilT, err |-> out.err]
    ELSE IF isNil(out.val) THEN [val |-> NilT, err |-> "ErrNil"]
    ELSE [val |-> out.val, err |-> "nil"]

\* the contents of the store the call uses after the source loader's
\* SetStore set the box it had made
loadQueryStoreBox(c, k, out, box, ttl, wfail) ==
    IF out.err # "nil" THEN DataOf(StoreOf(c)) ELSE SetStoreBox(c, k, box, ttl, wfail)

\* a source loader that boxes and sets what a failed source call returned
loadQueryStoreM(c, k, out, ttl, wfail) == SetStore(c, k, out.val, ttl, wfail)

\* a source loader that tests isNil before it stores
loadQueryStoreN(c, k, out, ttl, wfail) ==
    IF out.err # "nil" \/ isNil(out.val) THEN DataOf(StoreOf(c))
    ELSE SetStore(c, k, out.val, ttl, wfail)

\* the contents of the store the call uses after the source loader ran
loadQueryStore(c, k, out, ttl, wfail) ==
    IF out.err # "nil" THEN DataOf(StoreOf(c)) ELSE SetStore(c, k, out.val, ttl, wfail)

(* ------------------------------ policies ------------------------------ *)
\* What a policy body does after its cache read c:
\*   act = "return": the body returns (val, err)
\*   act = "query":  it calls the source loader with ttl and then decides
\*   act = "spawn":  (First) it tries the shard lock, starts a refresh if
\*                   it got it, and returns (val, err)
Return(v, e) == [act |-> "return", val |-> v, err |-> e]
Query(reuse, result, ttl) ==
    [act |-> "query", isReuse |-> reuse, result |-> result, ttl |-> ttl]

\* cErr == nil && now.Unix() - timestamp < int64(expireTime.Seconds())
NotExpired(c, d) == Unix(now) - c.timestamp < Seconds(d)

\* an Easy body that tests the Box timestamp against d
EasyPloyM(c, d) ==
    IF c.err = "nil" /\ NotExpired(c, d) THEN Return(c.value, "nil")
    ELSE Query(FALSE, NilT, d)

EasyPloy(c, d) ==
    IF c.err = "nil" THEN Return(c.value, "nil")
    ELSE Query(FALSE, NilT, d)

ReuseCachePloyIgnoreError(c, d) ==
    IF c.err = "nil" /\ NotExpired(c, d) THEN Return(c.value, "nil")
    ELSE Query(c.err = "nil", c.value, KeepTTL)

\* a First body that refreshes an expired hit synchronously
FirstCachePolyIgnoreErrorM(c, d) ==
    IF c.err = "nil" /\ NotExpired(c, d) THEN Return(c.value, "nil")
    ELSE Query(c.err = "nil", c.value, KeepTTL)

FirstCachePolyIgnoreError(c, d) ==
    IF c.err = "nil" /\ NotExpired(c, d) THEN Return(c.value, "nil")
    ELSE IF c.err # "nil" THEN Query(FALSE, NilT, KeepTTL)
    ELSE [act |-> "spawn", val |-> c.value, err |-> "nil"]

\* a body that returns the error of a failed store read
PolicyBodyM(c) ==
    IF c.err = "ErrStore" THEN Return(NilT, c.err)
    ELSE CASE cfg.policy = "Easy" -> EasyPloy(c, cfg.D)
           [] cfg.policy = "Reuse" -> ReuseCachePloyIgnoreError(c, cfg.D)
           [] OTHER -> FirstCachePolyIgnoreError(c, cfg.D)

PolicyBody(c) ==
    CASE cfg.policy = "Easy" -> EasyPloy(c, cfg.D)
      [] cfg.policy = "Reuse" -> ReuseCachePloyIgnoreError(c, cfg.D)
      [] OTHER -> FirstCachePolyIgnoreError(c, cfg.D)

\* What the policy body returns once the source loader returned q;
\* l holds the body's locals isReuse and result.
EasyPloyQuery(l, q) == [val |-> q.val, err |-> q.err]

\* a Reuse body that returns what the source loader returned
ReuseQueryE(l, q) == [val |-> q.val, err |-> q.err]

\* a Reuse body that falls back to result without testing isReuse
ReuseQueryM(l, q) ==
    IF q.err = "nil" THEN [val |-> q.val, err |-> "nil"]
    ELSE [val |-> l.result, err |-> "nil"]

ReuseQuery(l, q) ==
    IF q.err = "nil" THEN [val |-> q.val, err |-> "nil"]
    ELSE IF l.isReuse THEN [val |-> l.result, err |-> "nil"]
    ELSE [val |-> NilT, err |-> q.err]

FirstQuery(l, q) == [val |-> q.val, err |-> q.err]

PolicyQuery(l, q) ==
    CASE cfg.policy = "Easy" -> EasyPloyQuery(l, q)
      [] cfg.policy = "Reuse" -> ReuseQuery(l, q)
      [] OTHER -> FirstQuery(l, q)

\* CacheCtr.Wrap: the (T, error) returned for the policy's (any, error)
WrapResult(r) ==
    IF r.err # "nil" THEN [val |-> ZeroT, err |-> r.err]
    ELSE [val |-> r.val, err |-> "nil"]

(* ---------------------------- single flight --------------------------- *)
\* a group that never finds an executing call
InFlightM(k) == FALSE
\* singleflight.Group.Do: is a call for the key executing
InFlight(k) == sg[k] # NoCall

\* the callers a finishing call of leader p hands its result to
Members(p, k) ==
    IF sg[k] # NoCall /\ sg[k].leader = p THEN {p} \cup sg[k].dups ELSE {p}

\* a group whose waiting callers read their own store
SharedM(q, r) ==
    LET g == GetStore(ctx[q], ckey[q], FALSE) IN
    IF sg[ckey[q]] # NoCall /\ sg[ckey[q]].leader # q /\ g.err = "nil"
    THEN [val |-> g.T, err |-> "nil"]
    ELSE WrapResult(r)

\* the result caller q of the epoch receives when the executing caller
\* returns r
Shared(q, r) == WrapResult(r)

(* ------------------------------ the facade ----------------------------- *)
\* the policy durations of the facade's defaults, in seconds
DefaultEasySec == 15
DefaultReuseSec == 30
DefaultFirstSec == 60

\* the value types T the facade functions are instantiated with
FacadeTypes == {"int", "string"}

NamedFns == {"Wrap", "WrapForReuseIgnoreError", "WrapForFirstIgnoreError"}
TTLFns == {"WrapWithTTL", "WrapForReuseIgnoreErrorWithTTL",
           "WrapForFirstIgnoreErrorWithTTL"}
FacadeFns == NamedFns \cup TTLFns

\* the policy of the controller a facade function constructs
PolicyOfFn(fn) ==
    CASE fn \in {"Wrap", "WrapWithTTL"} -> "Easy"
      [] fn \in {"WrapForReuseIgnoreError", "WrapForReuseIgnoreErrorWithTTL"} -> "Reuse"
      [] OTHER -> "First"

\* fmt.Sprintf("%T", new(T))
TypeName(T) == "*" \o T

\* the registry name a facade call resolves to
NameOf(fn, name, T) ==
    CASE fn = "WrapWithTTL" -> "library-modecache-easy-default-" \o TypeName(T)
      [] fn = "WrapForReuseIgnoreErrorWithTTL" ->
             "library-modecache-reuse-default-" \o TypeName(T)
      [] fn = "WrapForFirstIgnoreErrorWithTTL" ->
             "library-modecache-first-default-" \o TypeName(T)
      [] OTHER -> name

\* the policy duration of the controller a facade call constructs, in seconds
DurationOf(fn, ttl) ==
    CASE fn = "Wrap" -> DefaultEasySec
      [] fn = "WrapForReuseIgnoreError" -> DefaultReuseSec
      [] fn = "WrapForFirstIgnoreError" -> DefaultFirstSec
      [] OTHER -> ttl

\* the names callers pass: one of their own, and one that WrapWithTTL derives
Names == {"n1", NameOf("WrapWithTTL", "", "int")}
AllNames == Names \cup {NameOf(fn, "", T) : fn \in TTLFns, T \in FacadeTypes}

\* the call site of caller p passes its own Store and its own ttl (seconds)
StoreArg(p) == <<"store", p>>
TTLArg(p) == p

\* *new(T)
ZeroOf(T) == IF T = "int" THEN "0" ELSE ""

NoCtr == [none |-> TRUE]
NoFc == [pc |-> "idle"]

NewCacheController(name, T, st, policy, d) ==
    [Name |-> name, T |-> T, store |-> st, policy |-> policy, d |-> d]

\* sync.Map.LoadOrStore: the map afterwards
LoadOrStoreM(m, name, new) == [m EXCEPT ![name] = new]
LoadOrStore(m, name, new) ==
    IF m[name] = NoCtr THEN [m EXCEPT ![name] = new] ELSE m

\* ctrIntr.(*CacheCtr[T])
TypeAssertM(ctrIntr, T) == ctrIntr # NoCtr
TypeAssert(ctrIntr, T) == ctrIntr # NoCtr /\ ctrIntr.T = T

(* ------------------------------- plugins ------------------------------- *)
NoPlug == [pc |-> "idle"]

\* a loader: nil, or a closure; inner tells whether the closure ends in the
\* loader the controller built ("base") or in a nil one, by lists the
\* plugins that wrapped it, innermost first
BaseLoader == [nil |-> FALSE, inner |-> "base", by |-> <<>>]
NilLoader == [nil |-> TRUE, inner |-> "nil", by |-> <<>>]

PlugErrs == {"ErrPluginA", "ErrPluginB"}

\* what InterceptCallQuery or InterceptCallCache can return: a loader (one
\* that wraps the loader received, the loader received, or nil), whether
\* to continue, and an error
PlugOutcomes ==
    [ld : {"wrap", "same", "nil"}, ok : BOOLEAN, err : {"nil"}]
    \cup [ld : {"nil"}, ok : {FALSE}, err : PlugErrs]

\* the loader plugin i returns with outcome o on receiving the loader got
Returned(i, got, o) ==
    CASE o.ld = "wrap" -> [nil |-> FALSE, inner |-> got.inner, by |-> Append(got.by, i)]
      [] o.ld = "same" -> got
      [] OTHER -> NilLoader

\* if err != nil { return nil, err }
AbortsM(err) == FALSE
Aborts(err) == err # "nil"

\* if !ok { break }
ProceedM(ok) == TRUE
Proceed(ok) == ok

\* loadCache = plugCache, loadQuery = plugQuery
Assign(cur, ret) == ret

\* calling the loader calls a nil func
Panics(ld) == ld.nil \/ ld.inner = "nil"

(* ------------------------------- state -------------------------------- *)
\* cfg       the controller: its policy, the policy duration D in ticks,
\*           the keys in use, and whether store and source are reliable
\* now       the clock, in ticks
\* store     key -> the entry the store holds (a Box and its expiry)
\* sg        key -> the executing single-flight call (leader, waiting dups)
\* mu        the locked shards of the policy's Mutex128
\* bg        key -> the number of live background refresh tasks
\* pc, ckey  each caller's position in Wrap and the key it wraps
\* loc       the locals of a caller whose policy body is in the source call
\* sawStored caller -> the store held a usable entry when its Wrap began and
\*           no source call succeeded and no entry was removed since
\* last      the record of the single-flight epoch that the last step
\*           finished (NoLast when the last step finished none)
\* queryCount, firstTs   key -> source invocations so far; the timestamp of
\*           the first Box stored
\* cstore    key -> the entry held by the store that contexts carry
\* ctx       caller -> the context it passed to Wrap
\* bgctx     key -> the context of the key's background refresh
\* hist      store, key -> the last successful SetStore: the value, the
\*           second and the tick of the write
\* ctrStore  name -> the controller the facade registered under the name
\* fc        caller -> its position in a facade function
\* plug      the position of a Wrap on a controller with plugins, the
\*           loaders built so far and the plugin calls made
\* circuits  key -> the circuit state the ResiliencePlugin keeps for it
\* lk        task -> its position in a Mutex128 method and the shard keys
\*           it has locked
\* rcall     the call of a loader wrapped by the ResiliencePlugin that is
\*           under way, and the failed calls in a row so far
\* the state every specification starts from, but for cfg
Start ==
    /\ now = StartNow
    /\ store = [k \in AllKeys |-> NoEntry]
    /\ sg = [k \in AllKeys |-> NoCall]
    /\ mu = {}
    /\ bg = [k \in AllKeys |-> 0]
    /\ pc = [p \in Callers |-> "idle"]
    /\ ckey = [p \in Callers |-> NoKey]
    /\ loc = [p \in Callers |-> NoLoc]
    /\ sawStored = [p \in Callers |-> FALSE]
    /\ last = NoLast
    /\ queryCount = [k \in AllKeys |-> 0]
    /\ firstTs = [k \in AllKeys |-> NoTs]
    /\ cstore = [k \in AllKeys |-> NoEntry]
    /\ ctx = [p \in Callers |-> NoCtx]
    /\ bgctx = [k \in AllKeys |-> NoCtx]
    /\ hist = [s \in {"default", "ctx"} |-> [k \in AllKeys |-> NoHist]]
    /\ ctrStore = [n \in AllNames |-> NoCtr]
    /\ fc = [p \in Callers |-> NoFc]
    /\ plug = NoPlug
    /\ circuits = [k \in AllKeys |-> NoCircuit]
    /\ lk = [p \in Callers |-> NoLk]
    /\ rcall = NoLd

\* a controller of *User over a cacheStore, called with contexts that carry
\* no store
Init ==
    /\ cfg \in [policy : Policies, D : DSet, reliable : BOOLEAN, keys : {{"k2"}},
                 kind : {"cache"}, ckind : {"cache"}, T : {TypeUser},
                 ctxs : {{FALSE}}]
    /\ Start

\* the faults the environment can produce
Faults == IF cfg.reliable THEN {FALSE} ELSE BOOLEAN

\* what the source function can return
SrcOutcomes ==
    IF cfg.reliable THEN {[val |-> v, err |-> "nil"] : v \in SrcVals}
    ELSE {[val |-> v, err |-> "nil"] : v \in Values}
         \cup {[val |-> NilT, err |-> "ErrSource"]}

\* context.WithoutCancel: whether the derived context is cancelled, given
\* whether it was (cur) and that its parent is cancelled or not
WithoutCancelM(cur, parentCancelled) == cur \/ parentCancelled
WithoutCancel(cur, parentCancelled) == cur

\* a refresh context that carries no values of the Wrap's context
RefreshCtxM(c) ==
    [store |-> FALSE, cancelled |-> WithoutCancel(FALSE, c.cancelled),
     parent |-> "live", deadline |-> now + cfg.D]

\* the context of a refresh that the Wrap with context c starts:
\* context.WithTimeout(context.WithoutCancel(ctx), expireTime); parent tells
\* whether the context of the Wrap has been cancelled since
RefreshCtx(c) ==
    [store |-> c.store, cancelled |-> WithoutCancel(FALSE, c.cancelled),
     parent |-> "live", deadline |-> now + cfg.D]

\* ctx.Done() is closed: cancelled, or past the deadline
CtxDone(c) == c.cancelled \/ now >= c.deadline

\* what the source function of a refresh with context c can return: once
\* the context is done, a source that looks at it returns the context's error
RefreshOutcomes(c) ==
    SrcOutcomes \cup (IF CtxDone(c) THEN {[val |-> NilT, err |-> "ErrCtx"]} ELSE {})

\* now - Box timestamp, in ticks
Age(ts) == now - ts * TicksPerSec

Usable(k) ==
    /\ store[k] # NoEntry
    /\ ~Expired(store[k])
    /\ ~isNil(store[k].T)

Bump(n) == IF n < MaxQueryCount THEN n + 1 ELSE n

\* the store changed under key k, or a source call on k succeeded
Unsettle(k) == [q \in Callers |-> IF ckey[q] = k THEN FALSE ELSE sawStored[q]]

\* the Box an entry of a store of the kind holds
BoxOf(kind, e) ==
    IF IsDirectStore(kind) THEN [Timestamp |-> e.Timestamp, T |-> e.T]
    ELSE Unmarshal(e.str)

FirstTs(c, k, st) ==
    LET s == StoreOf(c)
        slot == Slot(s, k)
    IN
    IF ~firstTs[k].set /\ st[slot] # DataOf(s)[slot]
    THEN [set |-> TRUE, ts |-> BoxOf(KindOf(s), st[slot]).Timestamp]
    ELSE firstTs[k]

\* the store that the call with context c uses now holds st
Put(c, st) ==
    /\ store' = IF StoreOf(c) = "default" THEN st ELSE store
    /\ cstore' = IF StoreOf(c) = "ctx" THEN st ELSE cstore

\* c is the context of a refresh whose Wrap's context has been cancelled
Orphan(c) == "parent" \in DOMAIN c /\ c.parent = "cancelled"

\* hist after the Set of box by SetStore(c, k, ...) that the store accepted
\* (ok) or not
WroteBox(c, k, box, ok) ==
    IF ok THEN [hist EXCEPT ![StoreOf(c)][k] =
                   [set |-> TRUE, val |-> box.T, ts |-> box.Timestamp,
                    at |-> now, orphan |-> Orphan(c),
                    refresh |-> Traced /\ "parent" \in DOMAIN c]]
    ELSE hist

\* hist after a SetStore(c, k, v) that the store accepted (ok) or not
Wrote(c, k, v, ok) == WroteBox(c, k, NewBox(v), ok)

(* ------------------------------ actions ------------------------------- *)
\* CacheCtr.Wrap up to sg.Do: join the executing call or become its leader
WrapCall(p, k) ==
    /\ pc[p] = "idle"
    /\ UNCHANGED sideVars
    /\ IF InFlight(k)
       THEN /\ sg' = [sg EXCEPT ![k].dups = @ \cup {p}]
            /\ pc' = [pc EXCEPT ![p] = "wait"]
       ELSE /\ sg' = [sg EXCEPT ![k] = [leader |-> p, dups |-> {}]]
            /\ pc' = [pc EXCEPT ![p] = "cache"]
    /\ ckey' = [ckey EXCEPT ![p] = k]
    /\ \E cs \in cfg.ctxs : ctx' = [ctx EXCEPT ![p] = [store |-> cs, cancelled |-> FALSE]]
    /\ sawStored' = [sawStored EXCEPT ![p] = Usable(k)]
    /\ last' = NoLast
    /\ UNCHANGED <<cfg, now, store, mu, bg, loc, queryCount, firstTs,
                   cstore, bgctx, hist>>

\* the executing caller p returns r from its policy body: the call is
\* removed from the group and every caller of the epoch gets the result;
\* stab is sawStored as this step leaves it for the callers still in Wrap
Complete(p, k, r, t, stab) ==
    LET ms == Members(p, k) IN
    /\ pc' = [q \in Callers |-> IF q \in ms THEN "idle" ELSE pc[q]]
    /\ ckey' = [q \in Callers |-> IF q \in ms THEN NoKey ELSE ckey[q]]
    /\ loc' = [q \in Callers |-> IF q \in ms THEN NoLoc ELSE loc[q]]
    /\ ctx' = [q \in Callers |-> IF q \in ms THEN NoCtx ELSE ctx[q]]
    /\ sawStored' = [q \in Callers |-> IF q \in ms THEN FALSE ELSE stab[q]]
    /\ sg' = IF sg[k] # NoCall /\ sg[k].leader = p
             THEN [sg EXCEPT ![k] = NoCall] ELSE sg
    /\ last' = [op |-> "Wrap", key |-> k, leader |-> p, ctx |-> ctx[p],
                stores |-> IF Traced THEN {StoreOf(ctx[q]) : q \in ms} ELSE {},
                ret |-> [q \in ms |-> Shared(q, r)],
                stable |-> {q \in ms : stab[q]},
                cache |-> t.cache, cval |-> t.cval, young |-> t.young,
                src |-> t.src, sval |-> t.sval, wrote |-> t.wrote,
                ttl |-> t.ttl, lock |-> t.lock]

\* the history of a body that returned without a source call
CacheTrace(c, lock) ==
    [cache |-> IF c.err = "nil" THEN "hit" ELSE c.err, cval |-> c.value,
     young |-> c.err = "nil" /\ Age(c.timestamp) < cfg.D,
     src |-> "none", sval |-> NilT, wrote |-> FALSE, ttl |-> 0, lock |-> lock]

\* the policy body of the executing caller: the cache read and what follows
PolicyStep(p, c, fail) ==
        LET k == ckey[p]
            d == PolicyBody(c)
            shard == hashCrc32ToUint(k)
        IN
        CASE d.act = "return" ->
               /\ Complete(p, k, d, CacheTrace(c, "none"), sawStored)
               /\ UNCHANGED <<cfg, now, store, mu, bg, queryCount, firstTs,
                              cstore, bgctx, hist>>
          [] d.act = "query" ->
               /\ pc' = [pc EXCEPT ![p] = "query"]
               /\ loc' = [loc EXCEPT ![p] =
                      [isReuse |-> d.isReuse, result |-> d.result, ttl |-> d.ttl,
                       cache |-> IF c.err = "nil" THEN "hit" ELSE c.err,
                       young |-> c.err = "nil" /\ Age(c.timestamp) < cfg.D,
                       fault |-> fail]]
               /\ queryCount' = [queryCount EXCEPT ![k] = Bump(@)]
               /\ last' = NoLast
               /\ UNCHANGED <<cfg, now, store, sg, mu, bg, ckey, sawStored, firstTs,
                              cstore, ctx, bgctx, hist>>
          [] OTHER ->
               /\ UNCHANGED <<cfg, now, store, firstTs, cstore, hist>>
               /\ IF TryLock(shard)
                  THEN /\ bg[k] < MaxBg
                       /\ mu' = mu \cup {ShardOf(shard)}
                       /\ bg' = [bg EXCEPT ![k] = @ + 1]
                       /\ bgctx' = [bgctx EXCEPT ![k] = RefreshCtx(ctx[p])]
                       /\ queryCount' = [queryCount EXCEPT ![k] = Bump(@)]
                       /\ Complete(p, k, d, CacheTrace(c, "won"), sawStored)
                  ELSE /\ UNCHANGED <<mu, bg, queryCount, bgctx>>
                       /\ Complete(p, k, d, CacheTrace(c, "lost"), sawStored)

CacheStep(p) ==
    /\ pc[p] = "cache"
    /\ UNCHANGED sideVars
    /\ \E fail \in Faults : PolicyStep(p, loadCache(ctx[p], ckey[p], fail), fail)

\* the source function of the executing caller returns: the source loader
\* boxes and stores a value, the policy body decides and returns
QueryFinish(p, out, wfail, box, st) ==
        LET k == ckey[p]
            l == loc[p]
            q == loadQuery(out)
        IN
        /\ out.err # "nil" => ~wfail
        /\ Put(ctx[p], st)
        /\ hist' = WroteBox(ctx[p], k, box, out.err = "nil" /\ ~wfail)
        /\ firstTs' = [firstTs EXCEPT ![k] = FirstTs(ctx[p], k, st)]
        /\ Complete(p, k, PolicyQuery(l, q),
                    [cache |-> l.cache, cval |-> l.result, young |-> l.young,
                     src |-> IF out.err = "nil" THEN "ok" ELSE "err",
                     sval |-> out.val, wrote |-> out.err = "nil" /\ ~wfail,
                     ttl |-> l.ttl, lock |-> "none"],
                    IF out.err = "nil" \/ l.fault THEN Unsettle(k) ELSE sawStored)
        /\ UNCHANGED <<cfg, now, mu, bg, queryCount, bgctx>>

QueryReturn(p) ==
    /\ pc[p] = "query"
    /\ UNCHANGED sideVars
    /\ \E out \in SrcOutcomes, wfail \in Faults :
          QueryFinish(p, out, wfail, NewBox(out.val),
                      loadQueryStore(ctx[p], ckey[p], out, loc[p].ttl, wfail))

\* a refresh that keeps the shard lock when its source call fails
RefreshFinishM(k, out, wfail, box, st) ==
        /\ out.err # "nil" => ~wfail
        /\ Put(bgctx[k], st)
        /\ hist' = WroteBox(bgctx[k], k, box, out.err = "nil" /\ ~wfail)
        /\ firstTs' = [firstTs EXCEPT ![k] = FirstTs(bgctx[k], k, st)]
        /\ sawStored' = IF out.err = "nil" THEN Unsettle(k) ELSE sawStored
        /\ bg' = [bg EXCEPT ![k] = @ - 1]
        /\ mu' = IF out.err = "nil" THEN mu \ {ShardOf(hashCrc32ToUint(k))} ELSE mu
        /\ bgctx' = IF bg[k] = 1 THEN [bgctx EXCEPT ![k] = NoCtx] ELSE bgctx
        /\ last' = NoLast
        /\ UNCHANGED <<cfg, now, sg, pc, ckey, loc, queryCount, ctx>>

\* a background refresh of the First policy ends: its source call returns,
\* the source loader stores a value, the shard lock is released
RefreshFinish(k, out, wfail, box, st) ==
        /\ out.err # "nil" => ~wfail
        /\ Put(bgctx[k], st)
        /\ hist' = WroteBox(bgctx[k], k, box, out.err = "nil" /\ ~wfail)
        /\ firstTs' = [firstTs EXCEPT ![k] = FirstTs(bgctx[k], k, st)]
        /\ sawStored' = IF out.err = "nil" THEN Unsettle(k) ELSE sawStored
        /\ bg' = [bg EXCEPT ![k] = @ - 1]
        /\ mu' = mu \ {ShardOf(hashCrc32ToUint(k))}
        /\ bgctx' = IF bg[k] = 1 THEN [bgctx EXCEPT ![k] = NoCtx] ELSE bgctx
        /\ last' = NoLast
        /\ UNCHANGED <<cfg, now, sg, pc, ckey, loc, queryCount, ctx>>

RefreshReturn(k) ==
    /\ bg[k] > 0
    /\ UNCHANGED sideVars
    /\ \E out \in RefreshOutcomes(bgctx[k]), wfail \in Faults :
          RefreshFinish(k, out, wfail, NewBox(out.val),
                        loadQueryStore(bgctx[k], k, out, KeepTTL, wfail))

\* Store.Del by some other part of the program
StoreDel(k) ==
    /\ ~cfg.reliable
    /\ UNCHANGED sideVars
    /\ store[k] # NoEntry
    /\ store' = [store EXCEPT ![k] = NoEntry]
    /\ hist' = [hist EXCEPT !["default"][k] = NoHist]
    /\ sawStored' = Unsettle(k)
    /\ last' = NoLast
    /\ UNCHANGED <<cfg, now, sg, mu, bg, pc, ckey, loc, queryCount, firstTs,
                   cstore, ctx, bgctx>>

\* the clock advances
Tick ==
    /\ now < MaxNow
    /\ UNCHANGED sideVars
    /\ now' = now + 1
    /\ last' = NoLast
    /\ UNCHANGED <<cfg, store, sg, mu, bg, pc, ckey, loc, sawStored,
                   queryCount, firstTs, cstore, ctx, bgctx, hist>>

Next ==
    \/ \E p \in Callers, k \in cfg.keys : WrapCall(p, k)
    \/ \E p \in Callers : CacheStep(p)
    \/ \E p \in Callers : QueryReturn(p)
    \/ \E k \in cfg.keys : RefreshReturn(k)
    \/ \E k \in cfg.keys : StoreDel(k)
    \/ Tick

Spec == Init /\ [][Next]_vars

(* ------------------------- cancelled contexts -------------------------- *)
\* the context of caller p, who waits in sg.Do for the executing call, is
\* cancelled; SingleflightGroup.Do does not look at its ctx
CtxCancel(p) ==
    /\ pc[p] = "wait"
    /\ UNCHANGED sideVars
    /\ ~ctx[p].cancelled
    /\ ctx' = [ctx EXCEPT ![p].cancelled = TRUE]
    /\ last' = NoLast
    /\ UNCHANGED <<cfg, now, store, sg, mu, bg, pc, ckey, loc, sawStored,
                   queryCount, firstTs, cstore, bgctx, hist>>

NextCancel ==
    \/ Next
    \/ \E p \in Callers : CtxCancel(p)

\* The scheduler runs every goroutine that can take a step of the library's
\* own code, and a store read returns: the policy body started by sg.Do
\* reads the cache.  Nothing makes the source function return.
SpecCancel ==
    /\ Init
    /\ [][NextCancel]_vars
    /\ WF_vars(\E p \in Callers : CacheStep(p))

(* ------------------- refreshes and their Wrap's context ---------------- *)
\* the context that was passed to the Wrap which started the refresh of k
\* is cancelled, after that Wrap returned
SpawnerCancel(k) ==
    /\ bg[k] > 0
    /\ bgctx[k].parent = "live"
    /\ bgctx' = [bgctx EXCEPT ![k].parent = "cancelled",
                              ![k].cancelled = WithoutCancel(@, TRUE)]
    /\ last' = NoLast
    /\ UNCHANGED sideVars
    /\ UNCHANGED <<cfg, now, store, sg, mu, bg, pc, ckey, loc, sawStored,
                   queryCount, firstTs, cstore, ctx, hist>>

NextRefresh ==
    \/ Next
    \/ \E k \in cfg.keys : SpawnerCancel(k)

SpecRefresh == Init /\ [][NextRefresh]_vars

(* ------------- SetStore in two steps: the Box, then store.Set ---------- *)
\* store and source can fail
InitStamp ==
    /\ cfg \in [policy : Policies, D : {1, TicksPerSec}, reliable : {FALSE},
                 keys : {{"k2"}}, kind : {"cache"}, ckind : {"cache"},
                 T : {TypeUser}, ctxs : {{FALSE}}]
    /\ Start

SrcErrors(outs) == {out \in outs : out.err # "nil"}
SrcValues(outs) == {out \in outs : out.err = "nil"}

\* the source function of the executing caller returns a value and SetStore
\* makes the Box, with the second it reads from the clock
QueryBox(p) ==
    /\ pc[p] = "query"
    /\ \E out \in SrcValues(SrcOutcomes) :
          loc' = [loc EXCEPT ![p] = [out |-> out, box |-> NewBox(out.val)] @@ @]
    /\ pc' = [pc EXCEPT ![p] = "set"]
    /\ last' = NoLast
    /\ UNCHANGED sideVars
    /\ UNCHANGED <<cfg, now, store, sg, mu, bg, ckey, sawStored, queryCount,
                   firstTs, cstore, ctx, bgctx, hist>>

\* store.Set of the Box returns, and with it SetStore, the source loader and
\* the policy body
QuerySet(p) ==
    /\ pc[p] = "set"
    /\ UNCHANGED sideVars
    /\ \E wfail \in Faults :
          QueryFinish(p, loc[p].out, wfail, loc[p].box,
                      loadQueryStoreBox(ctx[p], ckey[p], loc[p].out, loc[p].box,
                                        loc[p].ttl, wfail))

\* the source function of the executing caller returns an error
QueryFail(p) ==
    /\ pc[p] = "query"
    /\ UNCHANGED sideVars
    /\ \E out \in SrcErrors(SrcOutcomes) :
          QueryFinish(p, out, FALSE, NewBox(out.val), DataOf(StoreOf(ctx[p])))

\* the source function of the refresh returns a value and SetStore makes
\* the Box
RefreshBox(k) ==
    /\ bg[k] > 0
    /\ "box" \notin DOMAIN bgctx[k]
    /\ \E out \in SrcValues(RefreshOutcomes(bgctx[k])) :
          bgctx' = [bgctx EXCEPT ![k] = [out |-> out, box |-> NewBox(out.val)] @@ @]
    /\ last' = NoLast
    /\ UNCHANGED sideVars
    /\ UNCHANGED <<cfg, now, store, sg, mu, bg, pc, ckey, loc, sawStored,
                   queryCount, firstTs, cstore, ctx, hist>>

\* store.Set of the refresh's Box returns, and the refresh ends
RefreshSet(k) ==
    /\ bg[k] > 0
    /\ "box" \in DOMAIN bgctx[k]
    /\ UNCHANGED sideVars
    /\ \E wfail \in Faults :
          RefreshFinish(k, bgctx[k].out, wfail, bgctx[k].box,
                        loadQueryStoreBox(bgctx[k], k, bgctx[k].out, bgctx[k].box,
                                          KeepTTL, wfail))

\* the source function of the refresh returns an error
RefreshFail(k) ==
    /\ bg[k] > 0
    /\ "box" \notin DOMAIN bgctx[k]
    /\ UNCHANGED sideVars
    /\ \E out \in SrcErrors(RefreshOutcomes(bgctx[k])) :
          RefreshFinish(k, out, FALSE, NewBox(out.val), DataOf(StoreOf(bgctx[k])))

NextStamp ==
    \/ \E p \in Callers, k \in cfg.keys : WrapCall(p, k)
    \/ \E p \in Callers : CacheStep(p)
    \/ \E p \in Callers : QueryBox(p)
    \/ \E p \in Callers : QuerySet(p)
    \/ \E p \in Callers : QueryFail(p)
    \/ \E k \in cfg.keys : RefreshBox(k)
    \/ \E k \in cfg.keys : RefreshSet(k)
    \/ \E k \in cfg.keys : RefreshFail(k)
    \/ \E k \in cfg.keys : StoreDel(k)
    \/ Tick

SpecStamp == InitStamp /\ [][NextStamp]_vars

(* ------------------- Boxes the controller did not make ----------------- *)
\* store.Set(ctx, k, &AbcBox[T]{T: v}, KeepTTL) by some other part of the
\* program: a Box whose Timestamp was left at its zero value
StoreSetZero(k, v) ==
    /\ store[k] # StoreSet([T |-> v, Timestamp |-> 0], KeepTTL)
    /\ store' = [store EXCEPT ![k] = StoreSet([T |-> v, Timestamp |-> 0], KeepTTL)]
    /\ hist' = [hist EXCEPT !["default"][k] = NoHist]
    /\ sawStored' = Unsettle(k)
    /\ last' = NoLast
    /\ UNCHANGED sideVars
    /\ UNCHANGED <<cfg, now, sg, mu, bg, pc, ckey, loc, queryCount, firstTs,
                   cstore, ctx, bgctx>>

NextZero ==
    \/ Next
    \/ \E k \in cfg.keys, v \in SrcVals : StoreSetZero(k, v)

SpecZero == Init /\ [][NextZero]_vars

(* ------------------------ the ResiliencePlugin ------------------------- *)
\* a controller whose one plugin is NewResiliencePlugin(MaxRetries, Backoff,
\* CircuitFailureThreshold, CircuitResetAfter)
InitResil ==
    /\ cfg \in [policy : Policies, D : {TicksPerSec}, reliable : {FALSE},
                 keys : {{"k2"}}, kind : {"cache"}, ckind : {"cache"},
                 T : {TypeUser}, ctxs : {{FALSE}},
                 MaxRetries : 0..MaxMaxRetries,
                 CircuitFailureThreshold : 1..MaxThreshold,
                 CircuitResetAfter : {TicksPerSec}]
    /\ Start

\* a checkCircuit that closes the circuit and keeps the failure count
checkCircuitM(state) ==
    IF state.circuitOpen /\ now - state.openedAt >= cfg.CircuitResetAfter
    THEN [open |-> FALSE, state |-> [state EXCEPT !.circuitOpen = FALSE]]
    ELSE [open |-> state.circuitOpen, state |-> state]

\* checkCircuit: whether the circuit is open, and the state it leaves
checkCircuit(state) ==
    IF state.circuitOpen /\ now - state.openedAt >= cfg.CircuitResetAfter
    THEN [open |-> FALSE,
          state |-> [state EXCEPT !.circuitOpen = FALSE, !.failures = 0]]
    ELSE [open |-> state.circuitOpen, state |-> state]

\* a recordFailure that opens the circuit one failure late
recordFailureM(state) ==
    IF state.failures + 1 > cfg.CircuitFailureThreshold
    THEN [failures |-> state.failures + 1, circuitOpen |-> TRUE, openedAt |-> now]
    ELSE [state EXCEPT !.failures = @ + 1]

recordFailure(state) ==
    IF state.failures + 1 >= cfg.CircuitFailureThreshold
    THEN [failures |-> state.failures + 1, circuitOpen |-> TRUE, openedAt |-> now]
    ELSE [state EXCEPT !.failures = @ + 1]

recordSuccess(state) == [state EXCEPT !.failures = 0, !.circuitOpen = FALSE]

\* a loop that makes one attempt more
MoreAttemptsM(attempt) == attempt <= cfg.MaxRetries
\* for attempt := 0; attempt <= r.MaxRetries; attempt++: whether another
\* attempt follows the failed attempt
MoreAttempts(attempt) == attempt + 1 <= cfg.MaxRetries

\* a wrapped cache loader that does not count a key miss as a failure
WrappedCacheM(state, c) ==
    LET chk == checkCircuit(state) IN
    IF chk.open
    THEN [c |-> [value |-> NilT, timestamp |-> 0, err |-> "ErrCircuitOpen"],
          state |-> chk.state]
    ELSE IF c.err = "nil" THEN [c |-> c, state |-> recordSuccess(chk.state)]
    ELSE [c |-> [value |-> NilT, timestamp |-> 0, err |-> c.err],
          state |-> IF c.err = "ErrNil" THEN chk.state ELSE recordFailure(chk.state)]

\* the loader ResiliencePlugin.InterceptCallCache returns, given the circuit state and what
\* loadCache returns on its attempts (the attempts read the store at once:
\* c is the last one, or the one that succeeded)
WrappedCache(state, c) ==
    LET chk == checkCircuit(state) IN
    IF chk.open
    THEN [c |-> [value |-> NilT, timestamp |-> 0, err |-> "ErrCircuitOpen"],
          state |-> chk.state]
    ELSE IF c.err = "nil" THEN [c |-> c, state |-> recordSuccess(chk.state)]
    ELSE [c |-> [value |-> NilT, timestamp |-> 0, err |-> c.err],
          state |-> recordFailure(chk.state)]

\* the locals of a wrapped source loader that has passed checkCircuit
Checked(l) == "attempt" \in DOMAIN l

\* the policy body of the executing caller, its cache loader wrapped
ResCacheStep(p) ==
    /\ pc[p] = "cache"
    /\ UNCHANGED <<ctrStore, fc, plug, lk, rcall>>
    /\ \E fail \in Faults :
          LET w == WrappedCache(circuits[ckey[p]],
                                loadCache(ctx[p], ckey[p], fail))
          IN
          /\ circuits' = [circuits EXCEPT ![ckey[p]] = w.state]
          /\ PolicyStep(p, w.c, fail)

\* the wrapped source loader of the executing caller starts: checkCircuit
ResQueryCheck(p) ==
    /\ pc[p] = "query"
    /\ ~Checked(loc[p])
    /\ UNCHANGED <<ctrStore, fc, plug, lk, rcall>>
    /\ LET chk == checkCircuit(circuits[ckey[p]]) IN
       /\ circuits' = [circuits EXCEPT ![ckey[p]] = chk.state]
       /\ IF chk.open
          THEN QueryFinish(p, [val |-> NilT, err |-> "ErrCircuitOpen"], FALSE,
                           NewBox(NilT), DataOf(StoreOf(ctx[p])))
          ELSE /\ loc' = [loc EXCEPT ![p] = [attempt |-> 0] @@ @]
               /\ last' = NoLast
               /\ UNCHANGED <<cfg, now, store, sg, mu, bg, pc, ckey, sawStored,
                              queryCount, firstTs, cstore, ctx, bgctx, hist>>

\* an attempt of the wrapped source loader returns: success ends the loop,
\* an error starts the next attempt or, after the last one, recordFailure
ResQueryReturn(p) ==
    /\ pc[p] = "query"
    /\ Checked(loc[p])
    /\ UNCHANGED <<ctrStore, fc, plug, lk, rcall>>
    /\ \E out \in SrcOutcomes, wfail \in Faults :
          LET k == ckey[p]
              st == loadQueryStore(ctx[p], k, out, loc[p].ttl, wfail)
          IN
          IF loadQuery(out).err = "nil"
          THEN /\ circuits' = [circuits EXCEPT ![k] = recordSuccess(@)]
               /\ QueryFinish(p, out, wfail, NewBox(out.val), st)
          ELSE IF MoreAttempts(loc[p].attempt)
          THEN /\ out.err # "nil" => ~wfail
               /\ Put(ctx[p], st)
               /\ hist' = Wrote(ctx[p], k, out.val, out.err = "nil" /\ ~wfail)
               /\ firstTs' = [firstTs EXCEPT ![k] = FirstTs(ctx[p], k, st)]
               /\ sawStored' = IF out.err = "nil" THEN Unsettle(k) ELSE sawStored
               /\ loc' = [loc EXCEPT ![p].attempt = @ + 1]
               /\ last' = NoLast
               /\ UNCHANGED <<cfg, now, sg, mu, bg, pc, ckey, queryCount, ctx,
                              bgctx, circuits>>
          ELSE /\ circuits' = [circuits EXCEPT ![k] = recordFailure(@)]
               /\ QueryFinish(p, out, wfail, NewBox(out.val), st)

\* the wrapped source loader of a refresh starts: checkCircuit
ResRefreshCheck(k) ==
    /\ bg[k] > 0
    /\ ~Checked(bgctx[k])
    /\ UNCHANGED <<ctrStore, fc, plug, lk, rcall>>
    /\ LET chk == checkCircuit(circuits[k]) IN
       /\ circuits' = [circuits EXCEPT ![k] = chk.state]
       /\ IF chk.open
          THEN RefreshFinish(k, [val |-> NilT, err |-> "ErrCircuitOpen"], FALSE,
                             NewBox(NilT), DataOf(StoreOf(bgctx[k])))
          ELSE /\ bgctx' = [bgctx EXCEPT ![k] = [attempt |-> 0] @@ @]
               /\ last' = NoLast
               /\ UNCHANGED <<cfg, now, store, sg, mu, bg, pc, ckey, loc,
                              sawStored, queryCount, firstTs, cstore, ctx, hist>>

\* an attempt of the wrapped source loader of a refresh returns
ResRefreshReturn(k) ==
    /\ bg[k] > 0
    /\ Checked(bgctx[k])
    /\ UNCHANGED <<ctrStore, fc, plug, lk, rcall>>
    /\ \E out \in RefreshOutcomes(bgctx[k]), wfail \in Faults :
          LET st == loadQueryStore(bgctx[k], k, out, KeepTTL, wfail) IN
          IF loadQuery(out).err = "nil"
          THEN /\ circuits' = [circuits EXCEPT ![k] = recordSuccess(@)]
               /\ RefreshFinish(k, out, wfail, NewBox(out.val), st)
          ELSE IF MoreAttempts(bgctx[k].attempt)
          THEN /\ out.err # "nil" => ~wfail
               /\ Put(bgctx[k], st)
               /\ hist' = Wrote(bgctx[k], k, out.val, out.err = "nil" /\ ~wfail)
               /\ firstTs' = [firstTs EXCEPT ![k] = FirstTs(bgctx[k], k, st)]
               /\ sawStored' = IF out.err = "nil" THEN Unsettle(k) ELSE sawStored
               /\ bgctx' = [bgctx EXCEPT ![k].attempt = @ + 1]
               /\ last' = NoLast
               /\ UNCHANGED <<cfg, now, sg, mu, bg, pc, ckey, loc, queryCount,
                              ctx, circuits>>
          ELSE /\ circuits' = [circuits EXCEPT ![k] = recordFailure(@)]
               /\ RefreshFinish(k, out, wfail, NewBox(out.val), st)

NextResil ==
    \/ \E p \in Callers, k \in cfg.keys : WrapCall(p, k)
    \/ \E p \in Callers : ResCacheStep(p)
    \/ \E p \in Callers : ResQueryCheck(p)
    \/ \E p \in Callers : ResQueryReturn(p)
    \/ \E k \in cfg.keys : ResRefreshCheck(k)
    \/ \E k \in cfg.keys : ResRefreshReturn(k)
    \/ \E k \in cfg.keys : StoreDel(k)
    \/ Tick

SpecResil == InitResil /\ [][NextResil]_vars

(* ------------------ a wrapped loader, called in turn ------------------- *)
\* the frame of a call of the wrapped loader
LoaderFrame ==
    UNCHANGED <<ctrStore, fc, plug, lk, cfg, sg, mu, bg, pc, ckey, loc,
                sawStored, queryCount, firstTs, ctx, bgctx, storeVars>>

\* what the record of a finished call of the wrapped loader tells: the error
\* returned, the attempts made, the circuit state and the time the call began with
Loaded(k, err, tried) ==
    [op |-> "Load", key |-> k, err |-> err, tried |-> tried,
     before |-> IF rcall.pc = "idle" THEN circuits[k] ELSE rcall.before,
     t0 |-> IF rcall.pc = "idle" THEN now ELSE rcall.t0,
     checked |-> IF rcall.pc = "idle" THEN checkCircuit(circuits[k]).state
                 ELSE rcall.checked]

\* wrapped(ctx, k, ttl) begins: getCircuitState and checkCircuit; with the
\* circuit open it returns ErrCircuitOpen
WrappedCall(k) ==
    /\ rcall.pc = "idle"
    /\ LET chk == checkCircuit(circuits[k]) IN
       /\ circuits' = [circuits EXCEPT ![k] = chk.state]
       /\ IF chk.open
          THEN /\ last' = Loaded(k, "ErrCircuitOpen", 0)
               /\ rcall' = rcall
          ELSE /\ last' = NoLast
               /\ rcall' = [pc |-> "try", key |-> k, attempt |-> 0,
                            before |-> circuits[k], t0 |-> now,
                            checked |-> chk.state,
                            streak |-> IF circuits[k].circuitOpen THEN 0
                                       ELSE rcall.streak]
    /\ now' = now
    /\ LoaderFrame

\* one attempt of the loop: the underlying loader returns
WrappedAttempt(ok) ==
    /\ rcall.pc = "try"
    /\ LET k == rcall.key IN
       IF ok
       THEN /\ circuits' = [circuits EXCEPT ![k] = recordSuccess(@)]
            /\ last' = Loaded(k, "nil", rcall.attempt + 1)
            /\ rcall' = [pc |-> "idle", streak |-> 0]
       ELSE IF MoreAttempts(rcall.attempt)
       THEN /\ rcall' = [rcall EXCEPT !.attempt = @ + 1]
            /\ last' = NoLast
            /\ circuits' = circuits
       ELSE /\ circuits' = [circuits EXCEPT ![k] = recordFailure(@)]
            /\ last' = Loaded(k, "ErrLoad", rcall.attempt + 1)
            /\ rcall' = [pc |-> "idle", streak |-> rcall.streak + 1]
    /\ now' = now
    /\ LoaderFrame

\* the clock advances
LoaderTick ==
    /\ now < MaxNow
    /\ now' = now + 1
    /\ last' = NoLast
    /\ UNCHANGED <<circuits, rcall>>
    /\ LoaderFrame

NextLoader ==
    \/ \E k \in cfg.keys : WrappedCall(k)
    \/ \E ok \in BOOLEAN : WrappedAttempt(ok)
    \/ LoaderTick

SpecLoader == InitResil /\ [][NextLoader]_vars

(* ------------------------------ Mutex128 ------------------------------- *)
\* the shard keys the tasks pass: two of them differ by Mutex128Shards
ShardKeys == {1, 2, 1 + Mutex128Shards}

\* task p has locked the mutex of shard key i
Acquire(p, i) ==
    /\ mu' = mu \cup {ShardOf(i)}
    /\ lk' = [lk EXCEPT ![p] = [pc |-> "idle", shard |-> 0, held |-> @.held \cup {i}]]

\* Mutex128.Lock(i): sync.Mutex.Lock returns at once if the mutex is free,
\* otherwise the task blocks
LockCall(p, i) ==
    /\ lk[p].pc = "idle"
    /\ IF TryLock(i) THEN Acquire(p, i)
       ELSE /\ lk' = [lk EXCEPT ![p].pc = "Lock", ![p].shard = i]
            /\ mu' = mu
    /\ last' = [op |-> "Lock", p |-> p, shard |-> i]
    /\ UNCHANGED <<ctrStore, fc, plug, circuits, rcall, cfg, now, sg, bg, pc, ckey,
                   loc, sawStored, queryCount, firstTs, ctx, bgctx, storeVars>>

\* a task blocked in Lock gets the mutex once it is free
LockReturn(p) ==
    /\ lk[p].pc = "Lock"
    /\ TryLock(lk[p].shard)
    /\ Acquire(p, lk[p].shard)
    /\ last' = NoLast
    /\ UNCHANGED <<ctrStore, fc, plug, circuits, rcall, cfg, now, sg, bg, pc, ckey,
                   loc, sawStored, queryCount, firstTs, ctx, bgctx, storeVars>>

\* Mutex128.Unlock(i), called by the task that locked i
UnlockCall(p, i) ==
    /\ lk[p].pc = "idle"
    /\ i \in lk[p].held
    /\ mu' = mu \ {ShardOf(i)}
    /\ lk' = [lk EXCEPT ![p].held = @ \ {i}]
    /\ last' = NoLast
    /\ UNCHANGED <<ctrStore, fc, plug, circuits, rcall, cfg, now, sg, bg, pc, ckey,
                   loc, sawStored, queryCount, firstTs, ctx, bgctx, storeVars>>

\* Mutex128.TryLock(i)
TryLockCall(p, i) ==
    /\ lk[p].pc = "idle"
    /\ IF TryLock(i) THEN Acquire(p, i) ELSE UNCHANGED <<mu, lk>>
    /\ last' = [op |-> "TryLock", p |-> p, shard |-> i, ret |-> TryLock(i)]
    /\ UNCHANGED <<ctrStore, fc, plug, circuits, rcall, cfg, now, sg, bg, pc, ckey,
                   loc, sawStored, queryCount, firstTs, ctx, bgctx, storeVars>>

NextMutex ==
    \/ \E p \in Callers, i \in ShardKeys : LockCall(p, i)
    \/ \E p \in Callers : LockReturn(p)
    \/ \E p \in Callers, i \in ShardKeys : UnlockCall(p, i)
    \/ \E p \in Callers, i \in ShardKeys : TryLockCall(p, i)

\* tasks that share the Mutex128 of a First controller
InitMutex ==
    /\ cfg \in [policy : {"First"}, D : {TicksPerSec}, reliable : {TRUE},
                 keys : {{"k2"}}, kind : {"cache"}, ckind : {"cache"},
                 T : {TypeUser}, ctxs : {{FALSE}}]
    /\ Start

SpecMutex == InitMutex /\ [][NextMutex]_vars

(* ------------------------------ two keys ------------------------------- *)
\* a First controller over a reliable store, used with two keys: the shard keys of "k2" and "k3"
\* differ modulo Mutex128Shards, those of "k2" and "k64" do not
InitKeys ==
    /\ cfg \in [policy : {"First"}, D : {TicksPerSec}, reliable : {TRUE},
                 keys : {{"k2", "k3"}, {"k2", "k64"}}, kind : {"cache"},
                 ckind : {"cache"}, T : {TypeUser}, ctxs : {{FALSE}}]
    /\ Start

\* store and source are reliable and nothing else removes entries
NextKeys ==
    \/ \E p \in Callers, k \in cfg.keys : WrapCall(p, k)
    \/ \E p \in Callers : CacheStep(p)
    \/ \E p \in Callers : QueryReturn(p)
    \/ \E k \in cfg.keys : RefreshReturn(k)
    \/ Tick

SpecKeys == InitKeys /\ [][NextKeys]_vars

(* ------------- callers whose contexts carry different stores ----------- *)
\* a controller of *User over a reliable cacheStore; a context may carry a
\* RedisHashStore; the history keeps the stores of the callers
InitShare ==
    /\ cfg \in [policy : Policies, D : {TicksPerSec}, reliable : {TRUE},
                 keys : {{"k2"}}, kind : {"cache"}, ckind : {"hash"},
                 T : {TypeUser}, ctxs : {BOOLEAN}, trace : {TRUE}]
    /\ Start

SpecShare == InitShare /\ [][NextKeys]_vars

(* ------------------- SetStore and GetStore, called directly ------------ *)
\* the variables of Wrap, which the store calls leave alone
wrapVars == <<cfg, now, sg, mu, bg, pc, ckey, loc, sawStored, queryCount,
              firstTs, ctx, bgctx>>

\* the ttl arguments of SetStore: for ever, half a second, one second
TTLs == {KeepTTL, 1, TicksPerSec}

\* a controller of either value type: over a cacheStore or a redisStore
\* and called with contexts that carry no store, or called with contexts
\* that carry a RedisHashStore
InitStore ==
    /\ cfg \in [policy : {"Easy"}, D : {TicksPerSec}, reliable : {TRUE},
                 keys : {{"k2", "k3"}}, kind : {"cache", "redis"}, ckind : {"hash"},
                 T : {TypeUser, TypeTest}, ctxs : {{FALSE}}]
          \cup [policy : {"Easy"}, D : {TicksPerSec}, reliable : {TRUE},
                 keys : {{"k2", "k3"}}, kind : {"cache"}, ckind : {"hash"},
                 T : {TypeUser, TypeTest}, ctxs : {{TRUE}}]
    /\ Start

\* c.SetStore(ctx, k, v, ttl)
SetStoreCall(k, v, ttl, cs) ==
    LET c == [store |-> cs, cancelled |-> FALSE] IN
    /\ Put(c, SetStore(c, k, v, ttl, FALSE))
    /\ hist' = Wrote(c, k, v, TRUE)
    /\ last' = [op |-> "SetStore", key |-> k, ctx |-> c, store |-> StoreOf(c),
                T |-> v, Timestamp |-> Unix(now), err |-> "nil", ttl |-> ttl]
    /\ UNCHANGED wrapVars
    /\ UNCHANGED sideVars

\* c.GetStore(ctx, k)
GetStoreCall(k, cs) ==
    LET c == [store |-> cs, cancelled |-> FALSE]
        g == GetStore(c, k, FALSE)
    IN
    /\ last' = [op |-> "GetStore", key |-> k, ctx |-> c, store |-> StoreOf(c),
                T |-> g.T, Timestamp |-> g.Timestamp, err |-> g.err]
    /\ UNCHANGED <<store, cstore, hist>>
    /\ UNCHANGED wrapVars
    /\ UNCHANGED sideVars

NextStore ==
    \/ \E k \in cfg.keys, v \in ValuesOf(cfg.T), ttl \in TTLs, cs \in cfg.ctxs :
          SetStoreCall(k, v, ttl, cs)
    \/ \E k \in cfg.keys, cs \in cfg.ctxs : GetStoreCall(k, cs)
    \/ Tick

SpecStore == InitStore /\ [][NextStore]_vars

(* ------------------- contexts that carry a store ----------------------- *)
\* a controller of *User over a cacheStore; a context may carry a
\* RedisHashStore (NewRedisHashStore); store and source can fail
InitCtx ==
    /\ cfg \in [policy : Policies, D : {TicksPerSec}, reliable : {FALSE},
                 keys : {{"k2"}}, kind : {"cache"}, ckind : {"hash"},
                 T : {TypeUser}, ctxs : {BOOLEAN}]
    /\ Start

SpecCtx == InitCtx /\ [][Next]_vars

(* ------------------------------ the facade ----------------------------- *)

\* the facade functions a program uses, the names it passes to them and
\* the value types it instantiates them with
FnSets ==
    {[fns |-> {"Wrap", "WrapForReuseIgnoreError"}, names |-> {"n1"},
      types |-> FacadeTypes],
     [fns |-> {"WrapForFirstIgnoreError", "WrapWithTTL"},
      names |-> {NameOf("WrapWithTTL", "", "int")}, types |-> FacadeTypes],
     [fns |-> {"WrapForReuseIgnoreErrorWithTTL", "WrapForFirstIgnoreErrorWithTTL"},
      names |-> {"n1"}, types |-> {"int"}]}

InitFacade ==
    /\ \E f \in FnSets :
          cfg = [policy |-> "Easy", D |-> TicksPerSec, reliable |-> TRUE,
                 keys |-> {"k2"}, kind |-> "cache", ckind |-> "cache",
                 T |-> TypeUser, ctxs |-> {FALSE}, fns |-> f.fns,
                 names |-> f.names, types |-> f.types]
    /\ Start

\* a facade function up to its ctrStore.Load and the type assertion
FacadeCall(p, fn, name, T) ==
    LET n == NameOf(fn, name, T)
        ctrIntr == ctrStore[n]
        call == [fn |-> fn, name |-> n, T |-> T, via |-> "Load"]
    IN
    /\ fc[p] = NoFc
    /\ fc' = [fc EXCEPT ![p] =
                 IF TypeAssert(ctrIntr, T)
                 THEN [pc |-> "wrap", ctr |-> ctrIntr] @@ call
                 ELSE [pc |-> "create", ctr |-> NoCtr] @@ call]
    /\ last' = NoLast
    /\ UNCHANGED <<ctrStore, plug, circuits, lk, rcall, wrapVars, storeVars>>

\* ctrStore.LoadOrStore(name, NewCacheController(...)), the type assertion
\* and the error return
FacadeCreate(p) ==
    LET c == fc[p]
        new == NewCacheController(c.name, c.T, StoreArg(p), PolicyOfFn(c.fn),
                                  DurationOf(c.fn, TTLArg(p)))
        m == LoadOrStore(ctrStore, c.name, new)
        ctrIntr == m[c.name]
    IN
    /\ c.pc = "create"
    /\ ctrStore' = m
    /\ IF TypeAssert(ctrIntr, c.T)
       THEN /\ fc' = [fc EXCEPT ![p] = [c EXCEPT !.pc = "wrap",
                                                 !.via = "LoadOrStore",
                                                 !.ctr = ctrIntr]]
            /\ last' = NoLast
       ELSE /\ fc' = [fc EXCEPT ![p] = NoFc]
            /\ last' = [op |-> "facade", caller |-> p, fn |-> c.fn,
                        name |-> c.name, T |-> c.T, via |-> "LoadOrStore",
                        ctr |-> NoCtr, val |-> ZeroOf(c.T),
                        err |-> "ErrCreate", query |-> FALSE, touched |-> {}]
    /\ UNCHANGED <<plug, circuits, lk, rcall, wrapVars, storeVars>>

\* a ctr.Wrap that runs on the store the call site passed
FacadeWrapM(p) ==
    LET c == fc[p] IN
    /\ c.pc = "wrap"
    /\ \E q \in BOOLEAN, e \in {"nil", "ErrSource"} :
          /\ e # "nil" => q
          /\ last' = [op |-> "facade", caller |-> p, fn |-> c.fn,
                      name |-> c.name, T |-> c.T, via |-> c.via,
                      ctr |-> [c.ctr EXCEPT !.store = StoreArg(p)],
                      val |-> IF e = "nil" THEN "v" ELSE ZeroOf(c.T),
                      err |-> e, query |-> q, touched |-> {StoreArg(p)}]
    /\ fc' = [fc EXCEPT ![p] = NoFc]
    /\ UNCHANGED <<ctrStore, plug, circuits, lk, rcall, wrapVars, storeVars>>

\* ctr.Wrap(ctx, key, query) returns: the controller read its store and
\* called the query function or not
FacadeWrap(p) ==
    LET c == fc[p] IN
    /\ c.pc = "wrap"
    /\ \E q \in BOOLEAN, e \in {"nil", "ErrSource"} :
          /\ e # "nil" => q
          /\ last' = [op |-> "facade", caller |-> p, fn |-> c.fn,
                      name |-> c.name, T |-> c.T, via |-> c.via, ctr |-> c.ctr,
                      val |-> IF e = "nil" THEN "v" ELSE ZeroOf(c.T),
                      err |-> e, query |-> q, touched |-> {c.ctr.store}]
    /\ fc' = [fc EXCEPT ![p] = NoFc]
    /\ UNCHANGED <<ctrStore, plug, circuits, lk, rcall, wrapVars, storeVars>>

NextFacade ==
    \/ \E p \in Callers, fn \in cfg.fns, name \in cfg.names, T \in cfg.types :
          FacadeCall(p, fn, name, T)
    \/ \E p \in Callers : FacadeCreate(p)
    \/ \E p \in Callers : FacadeWrap(p)

SpecFacade == InitFacade /\ [][NextFacade]_vars

(* ------------------------------- plugins ------------------------------- *)
\* a controller with cfg.plugins plugins
InitPlugin ==
    /\ cfg \in [policy : {"Easy"}, D : {TicksPerSec}, reliable : {TRUE},
                 keys : {{"k2"}}, kind : {"cache"}, ckind : {"cache"},
                 T : {TypeUser}, ctxs : {{FALSE}}, plugins : 0..MaxPlugins]
    /\ Start

\* what Wrap returned, the plugin calls it made, the loaders it built and
\* what it invoked
PlugLast(val, err, panic, calls, lq, lc, policy, source, st) ==
    [op |-> "PlugWrap", val |-> val, err |-> err, panic |-> panic,
     calls |-> calls, loadQuery |-> lq, loadCache |-> lc,
     policy |-> policy, source |-> source, store |-> st]

\* the position after the loop of side took a turn that asks to go on (cont)
\* or not
After(side, cont) ==
    IF cont /\ plug.i < cfg.plugins THEN [pc |-> side, i |-> plug.i + 1]
    ELSE IF side = "query" THEN [pc |-> "cache", i |-> 1]
    ELSE [pc |-> "policy", i |-> 0]

\* CacheCtr.Wrap to the first plugin call: both loops are empty without plugins
PlugWrapCall ==
    /\ plug = NoPlug
    /\ plug' = [pc |-> IF cfg.plugins = 0 THEN "policy" ELSE "query",
                i |-> IF cfg.plugins = 0 THEN 0 ELSE 1,
                loadQuery |-> BaseLoader, loadCache |-> BaseLoader,
                calls |-> [query |-> <<>>, cache |-> <<>>]]
    /\ last' = NoLast
    /\ UNCHANGED <<ctrStore, fc, circuits, lk, rcall, wrapVars, storeVars>>

\* one turn of the loop over c.plugins in buildTryLoadingQuery (side
\* "query") or buildTryLoadingCache (side "cache"): plugin plug.i returns o
Intercept(side, o) ==
    LET i == plug.i
        got == IF side = "query" THEN plug.loadQuery ELSE plug.loadCache
        ret == Returned(i, got, o)
        call == [i |-> i, got |-> got, ret |-> ret, ok |-> o.ok, err |-> o.err]
        calls == [plug.calls EXCEPT ![side] = Append(@, call)]
        pos == After(side, Proceed(o.ok))
    IN
    /\ plug.pc = side
    /\ IF Aborts(o.err)
       THEN /\ plug' = NoPlug
            /\ last' = PlugLast(ZeroT, o.err, FALSE, calls, plug.loadQuery,
                                plug.loadCache, FALSE, FALSE, FALSE)
       ELSE /\ plug' = [pc |-> pos.pc, i |-> pos.i, calls |-> calls,
                        loadQuery |-> IF side = "query"
                                      THEN Assign(plug.loadQuery, ret)
                                      ELSE plug.loadQuery,
                        loadCache |-> IF side = "cache"
                                      THEN Assign(plug.loadCache, ret)
                                      ELSE plug.loadCache]
            /\ last' = NoLast
    /\ UNCHANGED <<ctrStore, fc, circuits, lk, rcall, wrapVars, storeVars>>

InterceptCallQuery == \E o \in PlugOutcomes : Intercept("query", o)

InterceptCallCache == \E o \in PlugOutcomes : Intercept("cache", o)

\* c.warp(ctx, key, loadQuery, loadCache): the policy calls loadCache and,
\* unless it returns the cached value, loadQuery
PolicyCall ==
    /\ plug.pc = "policy"
    /\ \E hit \in BOOLEAN, out \in SrcOutcomes :
          LET r == loadQuery(out) IN
          last' =
            IF Panics(plug.loadCache)
            THEN PlugLast(ZeroT, "nil", TRUE, plug.calls, plug.loadQuery,
                          plug.loadCache, TRUE, FALSE, FALSE)
            ELSE IF hit
            THEN PlugLast("v1", "nil", FALSE, plug.calls, plug.loadQuery,
                          plug.loadCache, TRUE, FALSE, TRUE)
            ELSE IF Panics(plug.loadQuery)
            THEN PlugLast(ZeroT, "nil", TRUE, plug.calls, plug.loadQuery,
                          plug.loadCache, TRUE, FALSE, TRUE)
            ELSE PlugLast(r.val, r.err, FALSE, plug.calls, plug.loadQuery,
                          plug.loadCache, TRUE, TRUE, TRUE)
    /\ plug' = NoPlug
    /\ UNCHANGED <<ctrStore, fc, circuits, lk, rcall, wrapVars, storeVars>>

NextPlugin ==
    \/ PlugWrapCall
    \/ InterceptCallQuery
    \/ InterceptCallCache
    \/ PolicyCall

SpecPlugin == InitPlugin /\ [][NextPlugin]_vars

(* ------------------------------- claims ------------------------------- *)
\* the source calls executing for key k: synchronous loads and refreshes
SourceLoads(k) ==
    Cardinality({p \in Callers : pc[p] = "query" /\ ckey[p] = k}) + bg[k]

\* C1: for one controller and one key at most one invocation of the source
\* function is executing at any instant, under each policy; synchronous
\* loads and First-policy background refreshes both count.
C1_SingleSourceLoad == \A k \in cfg.keys : SourceLoads(k) <= 1

\* C2: under the First policy the number of live background refresh tasks
\* for a key is at most 1 at every instant.
C2_OneRefresh == \A k \in cfg.keys : bg[k] <= 1

\* a Wrap found the entry expired while a refresh was live, and started none
C2_Witness ==
    /\ last # NoLast
    /\ last.lock = "lost"
    /\ bg[last.key] = 1

\* C3: with a source that always succeeds and a store that retains what is
\* written, the source function is invoked at most once in total as long as
\* the (first) stored entry has not reached age D.
C3_OneLoadPerWindow ==
    \A k \in cfg.keys :
        (cfg.reliable /\ (~firstTs[k].set \/ Age(firstTs[k].ts) < cfg.D))
            => queryCount[k] <= 1

\* the callers executing the policy body for key k
Executing(k) == {p \in Callers : ckey[p] = k /\ pc[p] \in {"cache", "query"}}

\* C4: among overlapping Wrap calls on one key exactly one executes the
\* policy body per single-flight epoch, and every other caller of the epoch
\* returns the (value, error) pair the executing caller returns.
C4_OneBodyPerEpoch ==
    /\ \A k \in cfg.keys :
        /\ Cardinality(Executing(k)) <= 1
        /\ InFlight(k) => Executing(k) = {sg[k].leader}
    /\ \A p \in Callers : pc[p] = "wait" =>
        /\ sg[ckey[p]] # NoCall
        /\ p \in sg[ckey[p]].dups
        /\ Executing(ckey[p]) = {sg[ckey[p]].leader}
    /\ last # NoLast =>
        \A q \in DOMAIN last.ret : last.ret[q] = last.ret[last.leader]

\* an epoch with a waiting caller finished with an error from the source
C4_Witness ==
    /\ last # NoLast
    /\ Cardinality(DOMAIN last.ret) >= 2
    /\ last.src = "err"

\* the result every caller of the finished epoch got
AllGot(v, e) == \A q \in DOMAIN last.ret : last.ret[q] = [val |-> v, err |-> e]

\* C5: under Reuse and First, once a successful source call has stored v0
\* and every later source call fails, every later Wrap on the key returns
\* (v0, nil) for as long as the store retains the entry.  last.stable are
\* the returning callers whose Wrap began with v0 in the store and saw no
\* later successful source call, removal or store read error.
C5_StaleOnError ==
    (last # NoLast /\ cfg.policy \in {"Reuse", "First"}) =>
        \A q \in last.stable :
            last.ret[q] = [val |-> store[last.key].T, err |-> "nil"]

\* C6: when the cache read does not hit and the source function returns an
\* error, Wrap returns that source error with the zero value of T, and no
\* background task is started.
C6_MissSourceError ==
    (last # NoLast /\ last.cache # "hit" /\ last.src = "err") =>
        /\ AllGot(ZeroT, "ErrSource")
        /\ last.lock = "none"

C6_Witness ==
    /\ last # NoLast
    /\ cfg.policy = "First"
    /\ last.cache = "ErrStore"
    /\ last.src = "err"

\* C7: under Reuse and First, whenever the cache read is a hit whose age
\* (now - Box timestamp) is strictly less than D, Wrap returns the cached
\* value and the source function is not invoked, for every positive D.
C7_FreshHit ==
    (last # NoLast /\ cfg.policy \in {"Reuse", "First"}
        /\ last.cache = "hit" /\ last.young) =>
        /\ AllGot(last.cval, "nil")
        /\ last.src = "none"
        /\ last.lock = "none"

\* C8: under Easy a cache hit returns the cached value whatever its
\* timestamp, invokes no source call and writes nothing to the store; only
\* a miss or cache error leads to a source call, made with store TTL D.
C8_EasyHit ==
    [][cfg.policy = "Easy" =>
        /\ (last' # NoLast /\ last'.cache = "hit") =>
            /\ \A q \in DOMAIN last'.ret :
                   last'.ret[q] = [val |-> last'.cval, err |-> "nil"]
            /\ last'.src = "none"
            /\ store' = store
            /\ queryCount' = queryCount
        /\ \A p \in Callers : pc'[p] = "query" =>
            /\ loc'[p].cache # "hit"
            /\ loc'[p].ttl = cfg.D]_vars

\* an Easy hit on an entry of age D or more
C8_Witness ==
    /\ last # NoLast
    /\ cfg.policy = "Easy"
    /\ last.cache = "hit"
    /\ ~last.young

\* the store holds value v boxed in the current second, without expiry
Holds(k, v) ==
    /\ store[k] # NoEntry
    /\ store[k].T = v
    /\ store[k].Timestamp = Unix(now)
    /\ store[k].expireAt = NoExpiration

ReuseExpiredHit ==
    /\ last # NoLast
    /\ cfg.policy = "Reuse"
    /\ last.cache = "hit"
    /\ ~last.young

\* C9 as stated: under Reuse, on a hit with age >= D the source is called
\* with TTL KeepTTL; if it succeeds Wrap returns the new value and the
\* store then holds it with a fresh timestamp; if it fails Wrap returns the
\* previously cached value with a nil error.
C9_ReuseExpired_Orig ==
    ReuseExpiredHit =>
        /\ last.src # "none"
        /\ last.ttl = KeepTTL
        /\ last.src = "ok" => (AllGot(last.sval, "nil") /\ Holds(last.key, last.sval))
        /\ last.src = "err" => AllGot(last.cval, "nil")

\* C9 amended: if the source returns a non-nil value without error, Wrap
\* returns it, and the store then holds it with a fresh timestamp unless
\* the store rejected the write; if the source fails, or returns a nil
\* value, Wrap returns the previously cached value with a nil error.
C9_ReuseExpired ==
    ReuseExpiredHit =>
        /\ last.src # "none"
        /\ last.ttl = KeepTTL
        /\ (last.src = "ok" /\ ~isNil(last.sval)) =>
            /\ AllGot(last.sval, "nil")
            /\ last.wrote => Holds(last.key, last.sval)
        /\ (last.src = "err" \/ isNil(last.sval)) => AllGot(last.cval, "nil")

\* an expired hit whose source call failed
C9_Witness ==
    /\ ReuseExpiredHit
    /\ last.src = "err"

\* C10: under First a Wrap that finds a cached entry with age >= D returns
\* that stale value with a nil error without waiting for a source call,
\* whether or not it acquires the shard lock.
C10_FirstStale ==
    (last # NoLast /\ cfg.policy = "First" /\ last.cache = "hit" /\ ~last.young) =>
        /\ AllGot(last.cval, "nil")
        /\ last.src = "none"
        /\ last.lock \in {"won", "lost"}
        /\ last.lock = "won" => bg[last.key] > 0

\* a Wrap returned the stale value without the lock while the refresh of
\* another Wrap was still running
C10_Witness ==
    /\ last # NoLast
    /\ cfg.policy = "First"
    /\ last.cache = "hit"
    /\ ~last.young
    /\ last.lock = "lost"
    /\ bg[last.key] > 0

\* the last successful SetStore on the controller's store under the key of
\* the finished epoch
LastSet == hist["default"][last.key]

\* C11: under Easy, after a successful load stored v0 and while every later
\* source call fails, a Wrap that reads the cache once more than D has
\* passed since v0 was stored does not hit v0, and returns the source error
\* with the zero value when its source call fails.
C11_EasyExpiry ==
    (last # NoLast /\ cfg.policy = "Easy" /\ LastSet.set
        /\ now > LastSet.at + cfg.D) =>
        /\ last.cache # "hit"
        /\ last.src # "none"
        /\ last.src = "err" => AllGot(ZeroT, "ErrSource")

\* v0 is past D and still in the store's map; the Wrap returned the error
C11_Witness ==
    /\ last # NoLast
    /\ cfg.policy = "Easy"
    /\ LastSet.set
    /\ now > LastSet.at + cfg.D
    /\ store[last.key] # NoEntry
    /\ store[last.key].T = LastSet.val
    /\ ~isNil(LastSet.val)
    /\ last.cache = "ErrKeyNonExistent"
    /\ AllGot(ZeroT, "ErrSource")

\* C12: when the store fails on Get and on Set and the source function
\* succeeds with a value v (not nil), Wrap returns (v, nil), under each
\* policy: the read error counts as a miss, the write error is dropped.
C12_StoreDown ==
    (last # NoLast /\ last.cache = "ErrStore") =>
        /\ last.src # "none"
        /\ (last.src = "ok" /\ ~last.wrote /\ ~isNil(last.sval)) =>
            AllGot(last.sval, "nil")

C12_Witness ==
    /\ last # NoLast
    /\ cfg.policy = "Reuse"
    /\ last.cache = "ErrStore"
    /\ last.src = "ok"
    /\ ~last.wrote
    /\ last.sval = "v2"
    /\ AllGot("v2", "nil")

\* C13: SetStore(ctx, k, v, ttl) followed by GetStore(ctx, k), with no
\* write to k in between, returns (v, t, nil) where t is the second of the
\* set and is not 0, for every value v of the controller's type, on direct
\* and on serializing stores.
C13_RoundTrip ==
    (last # NoLast /\ last.op = "GetStore" /\ hist[last.store][last.key].set) =>
        /\ last.err = "nil"
        /\ last.T = hist[last.store][last.key].val
        /\ last.Timestamp = hist[last.store][last.key].ts
        /\ last.Timestamp # 0

\* the Box that the entry e of a store of the kind gives a reader now
Held(kind, e) ==
    IF e = NoEntry \/ Gone(kind, e) THEN NoEntry ELSE BoxOf(kind, e)

\* the Box under key k in the store the contexts carry, in the controller's
CtxHeld(k) == Held(cfg.ckind, cstore[Slot("ctx", k)])
OwnHeld(k) == Held(cfg.kind, store[Slot("default", k)])

\* what the cache read of caller p gave, in the step that made it
ReadOf(p) ==
    IF pc'[p] = "query" THEN [cache |-> loc'[p].cache, cval |-> loc'[p].result]
    ELSE [cache |-> last'.cache, cval |-> last'.cval]

\* C14: when the context carries a Store under CtxStorageKey, every read and
\* write of the call (GetStore and SetStore inside Wrap, and the refresh
\* the Wrap started) goes to that store and the controller's store is
\* neither read nor modified; without it the controller's store is used
\* and the other is left alone.
C14_CtxStore ==
    [][/\ \A p \in Callers :
            LET k == ckey[p]
                mine == IF ctx[p].store THEN CtxHeld(k) ELSE OwnHeld(k)
            IN
            /\ (pc[p] = "cache" /\ pc'[p] # "cache") =>
                /\ ReadOf(p).cache = "hit" =>
                    (mine # NoEntry /\ ReadOf(p).cval = mine.T)
                /\ ReadOf(p).cache = "ErrKeyNonExistent" => mine = NoEntry
                /\ ReadOf(p).cache = "ErrNil" => (mine # NoEntry /\ isNil(mine.T))
                /\ store' = store
                /\ cstore' = cstore
            /\ (pc[p] = "query" /\ pc'[p] # "query") =>
                /\ IF ctx[p].store THEN store' = store ELSE cstore' = cstore
                /\ last'.wrote =>
                    LET e == IF ctx[p].store
                             THEN Held(cfg.ckind, cstore'[Slot("ctx", k)])
                             ELSE Held(cfg.kind, store'[Slot("default", k)])
                    IN e = [Timestamp |-> Unix(now), T |-> last'.sval]
       /\ \A k \in cfg.keys : bg'[k] < bg[k] =>
            IF bgctx[k].store THEN store' = store ELSE cstore' = cstore]_vars

\* a Wrap whose context carries a store hit a value there that the
\* controller's store does not hold
C14_Witness ==
    /\ last # NoLast
    /\ last.op = "Wrap"
    /\ last.ctx.store
    /\ last.cache = "hit"
    /\ CtxHeld(last.key) # NoEntry
    /\ last.cval = CtxHeld(last.key).T
    /\ OwnHeld(last.key) # NoEntry
    /\ OwnHeld(last.key).T # last.cval

\* C20: a Wrap caller that waits in single-flight for the executing call
\* and whose own context is cancelled stops waiting and returns, while the
\* source call of the executing caller keeps running.
C20_CancelledWaiterReturns ==
    \A p \in Callers : (pc[p] = "wait" /\ ctx[p].cancelled) ~> (pc[p] # "wait")

(* ------------------------------ the facade ----------------------------- *)
\* C15: the registry holds one controller per name, a registered controller
\* is never replaced, and every facade call that gets to ctr.Wrap runs on
\* the controller registered under its name, whose value type is the call's
C15_OneController ==
    [][/\ \A n \in AllNames : ctrStore[n] # NoCtr => ctrStore'[n] = ctrStore[n]
       /\ \A p \in Callers :
             fc'[p].pc = "wrap" =>
                 /\ fc'[p].ctr = ctrStore'[fc'[p].name]
                 /\ fc'[p].ctr.T = fc'[p].T
                 /\ fc'[p].ctr.Name = fc'[p].name]_vars

\* two callers raced to register one name: the loser of LoadOrStore runs on
\* the controller the winner constructed
C15_Witness ==
    \E p \in Callers :
        /\ fc[p].pc = "wrap"
        /\ fc[p].via = "LoadOrStore"
        /\ fc[p].ctr.store # StoreArg(p)

\* C16: a facade call on a name registered with a controller of another
\* value type returns the error and a zero value, calls no query function,
\* touches no store and leaves the registry as it was
C16_TypeMismatch ==
    [][(/\ last' # NoLast
        /\ last'.op = "facade"
        /\ ctrStore[last'.name] # NoCtr
        /\ ctrStore[last'.name].T # last'.T)
       => /\ last'.err = "ErrCreate"
          /\ last'.val = ZeroOf(last'.T)
          /\ ~last'.query
          /\ last'.touched = {}
          /\ ctrStore' = ctrStore]_vars

\* a facade call on a name that holds a controller of another value type
\* returned the error
C16_Witness ==
    /\ last # NoLast
    /\ last.op = "facade"
    /\ last.err = "ErrCreate"
    /\ ctrStore[last.name] # NoCtr
    /\ ctrStore[last.name].T # last.T

(* ------------------------------- plugins ------------------------------- *)
\* the plugin calls cs of one loader were made in declaration order, each
\* plugin receiving the loader the one before returned, none after a
\* plugin that returned continue = false
ChainOK(cs) ==
    \A j \in 1..Len(cs) :
        /\ cs[j].i = j
        /\ j <= cfg.plugins
        /\ cs[j].got = (IF j = 1 THEN BaseLoader ELSE cs[j - 1].ret)
        /\ j > 1 => cs[j - 1].ok

\* the loop over the plugins ended: every plugin was called or the last
\* one called returned continue = false
ChainDone(cs) == Len(cs) = cfg.plugins \/ (cs # <<>> /\ ~cs[Len(cs)].ok)

\* the loader the last plugin called returned
ChainFinal(cs) == IF cs = <<>> THEN BaseLoader ELSE cs[Len(cs)].ret

\* C17: each loader is built by calling the plugins in declaration order,
\* plugin i receiving the loader plugin i-1 returned; after the first
\* continue = false no further plugin is called for that loader, and the
\* loader that plugin returned is the one handed to the policy
C17_PluginOrder ==
    /\ plug # NoPlug =>
          /\ ChainOK(plug.calls.query)
          /\ ChainOK(plug.calls.cache)
          /\ plug.pc \in {"cache", "policy"} =>
                /\ ChainDone(plug.calls.query)
                /\ plug.loadQuery = ChainFinal(plug.calls.query)
          /\ plug.pc = "policy" =>
                /\ ChainDone(plug.calls.cache)
                /\ plug.loadCache = ChainFinal(plug.calls.cache)
    /\ (last # NoLast /\ last.policy) =>
          /\ ChainOK(last.calls.query) /\ ChainDone(last.calls.query)
          /\ ChainOK(last.calls.cache) /\ ChainDone(last.calls.cache)
          /\ last.loadQuery = ChainFinal(last.calls.query)
          /\ last.loadCache = ChainFinal(last.calls.cache)

\* two plugins: the first stopped the query chain, both wrapped the cache
\* loader, and the policy is about to be called
C17_Witness ==
    /\ plug.pc = "policy"
    /\ cfg.plugins = 2
    /\ Len(plug.calls.query) = 1
    /\ ~plug.calls.query[1].ok
    /\ plug.loadQuery.by = <<1>>
    /\ Len(plug.calls.cache) = 2
    /\ plug.loadCache.by = <<1, 2>>

\* the plugin calls of a Wrap, query side first
AllCalls(calls) == calls.query \o calls.cache

\* C18: when a plugin's InterceptCallQuery or InterceptCallCache returns an
\* error, Wrap returns that error with the zero value and calls neither
\* the policy, nor the source function, nor the store
C18_PluginError ==
    /\ plug # NoPlug =>
          \A j \in 1..Len(AllCalls(plug.calls)) : AllCalls(plug.calls)[j].err = "nil"
    /\ last # NoLast =>
          \A j \in 1..Len(AllCalls(last.calls)) :
              AllCalls(last.calls)[j].err # "nil" =>
                  /\ last.err = AllCalls(last.calls)[j].err
                  /\ last.val = ZeroT
                  /\ ~last.policy /\ ~last.source /\ ~last.store /\ ~last.panic

\* the second plugin's InterceptCallCache returned an error after the query
\* loader was built through both plugins
C18_Witness ==
    /\ last # NoLast
    /\ last.err \in PlugErrs
    /\ Len(last.calls.query) = 2
    /\ Len(last.calls.cache) = 2
    /\ last.calls.cache[2].err = last.err

\* C19: a nil loader returned by a plugin does not replace the current
\* one, so the loaders handed to the policy are never nil
C19_LoaderNeverNil ==
    plug.pc = "policy" => ~plug.loadQuery.nil /\ ~plug.loadCache.nil

(* ------------------- refreshes and their Wrap's context ---------------- *)
\* C21: under First a started refresh is not ended by the cancellation of
\* the context of the Wrap that started it: its context has the deadline
\* now + D and is never cancelled, and when its source call succeeds and
\* the store takes the write, the store holds the new Box
C21_RefreshSurvives ==
    [][\A k \in cfg.keys :
          /\ (bg[k] = 0 /\ bg'[k] = 1) => bgctx'[k].deadline = now + cfg.D
          /\ bg'[k] > 0 => ~bgctx'[k].cancelled
          /\ (bg'[k] < bg[k] /\ hist'["default"][k] # hist["default"][k]) =>
                /\ hist'["default"][k].orphan = (bgctx[k].parent = "cancelled")
                /\ store'[k] = [Timestamp |-> Unix(now),
                                T |-> hist'["default"][k].val,
                                expireAt |-> NoExpiration]]_vars

\* a refresh wrote its Box after the context of its Wrap was cancelled
C21_Witness ==
    \E k \in cfg.keys :
        /\ hist["default"][k].set
        /\ hist["default"][k].orphan
        /\ hist["default"][k].at = now
        /\ store[k] # NoEntry
        /\ store[k].T = hist["default"][k].val
        /\ store[k].Timestamp = Unix(now)

(* ------------- SetStore in two steps: the Box, then store.Set ---------- *)
\* C22: for one controller and one key the Timestamp of the Box the store
\* holds never decreases from one successful source load to the next
C22_TimestampMonotone ==
    [][\A k \in cfg.keys :
          (hist["default"][k].set /\ hist'["default"][k].set)
              => hist'["default"][k].ts >= hist["default"][k].ts]_vars

(* ------------------- Boxes the controller did not make ----------------- *)
\* C23: under every policy a cached Box whose Timestamp is 0 is unusable:
\* a Wrap whose cache read finds it does not return its value from that read
C23_ZeroTimestampUnusable ==
    [][\A p \in Callers :
          LET e == store[ckey[p]] IN
          (/\ pc[p] = "cache"
           /\ pc'[p] = "idle"
           /\ e # NoEntry
           /\ e.Timestamp = 0
           /\ ~isNil(e.T))
          => last'.ret[p] # [val |-> e.T, err |-> "nil"]]_vars

(* ------------------- the Box of a synchronous load --------------------- *)
\* C24 as stated: whenever the source function succeeds inside a synchronous
\* load, a Box holding the returned value with Timestamp equal to the
\* current second (never 0) is in the store when Wrap returns.
C24_FreshBoxStored_Orig ==
    (last # NoLast /\ last.src = "ok") =>
        /\ store[last.key] # NoEntry
        /\ store[last.key].T = last.sval
        /\ store[last.key].Timestamp = Unix(now)
        /\ store[last.key].Timestamp # 0

\* C24 amended: the Box SetStore makes holds the returned value and the
\* second of the clock at that moment, never 0; unless the store rejects
\* the write, that Box is in the store when Wrap returns, and its Timestamp
\* is then the current second or an earlier one.
C24_FreshBoxStored ==
    [][\A p \in Callers :
          /\ (pc[p] = "query" /\ pc'[p] = "set") =>
                /\ loc'[p].box = [T |-> loc'[p].out.val, Timestamp |-> Unix(now)]
                /\ loc'[p].box.Timestamp # 0
          /\ (pc[p] = "set" /\ pc'[p] = "idle" /\ last'.wrote) =>
                /\ store'[ckey[p]] # NoEntry
                /\ store'[ckey[p]].T = last'.sval
                /\ store'[ckey[p]].Timestamp = loc[p].box.Timestamp
                /\ store'[ckey[p]].Timestamp \in 1..Unix(now)]_vars

\* a synchronous load has returned its value with the Box in the store, the
\* second having changed since SetStore made the Box
C24_Witness ==
    /\ last # NoLast
    /\ last.src = "ok"
    /\ last.wrote
    /\ AllGot(last.sval, "nil")
    /\ store[last.key] # NoEntry
    /\ store[last.key].T = last.sval
    /\ store[last.key].Timestamp < Unix(now)

(* ------------------------ the ResiliencePlugin ------------------------- *)
\* C25 as stated: for every Wrap that returns a nil error the source
\* function was invoked at most once on its behalf, a refresh it started
\* included, under every policy and every plugin configuration.
C25_AtMostOneCall_Orig ==
    [][/\ \A p \in Callers :
            (/\ pc[p] = "query"
             /\ Checked(loc[p])
             /\ pc'[p] = "idle"
             /\ last'.ret[p].err = "nil") => loc[p].attempt + 1 <= 1
       /\ \A k \in cfg.keys :
            (bg'[k] < bg[k] /\ Checked(bgctx[k])) => bgctx[k].attempt + 1 <= 1]_vars

\* C25 amended: with a ResiliencePlugin of MaxRetries n the source function
\* is invoked at most n + 1 times on behalf of a Wrap that returns a nil
\* error, a refresh it started included; at most once when n = 0.
C25_AtMostOneCall ==
    [][/\ \A p \in Callers :
            (/\ pc[p] = "query"
             /\ Checked(loc[p])
             /\ pc'[p] = "idle"
             /\ last'.ret[p].err = "nil") => loc[p].attempt + 1 <= cfg.MaxRetries + 1
       /\ \A k \in cfg.keys :
            (bg'[k] < bg[k] /\ Checked(bgctx[k])) =>
                bgctx[k].attempt + 1 <= cfg.MaxRetries + 1]_vars

\* a Reuse Wrap has returned the cached value with a nil error after every
\* attempt of its wrapped source loader, two of them, failed
C25_Witness ==
    /\ last # NoLast
    /\ cfg.policy = "Reuse"
    /\ cfg.MaxRetries = 1
    /\ last.cache = "hit"
    /\ last.src = "err"
    /\ circuits[last.key].failures >= 1
    /\ AllGot(last.cval, "nil")

(* ------------------------------ KeepTTL -------------------------------- *)
\* C26: an entry written through SetStore with ttl = KeepTTL never expires
\* at the store layer, for each store implementation and whatever TTL
\* earlier writes to the same store had set.
C26_KeepTTLNeverExpires ==
    (last # NoLast /\ last.op = "SetStore" /\ last.ttl = KeepTTL) =>
        DataOf(last.store)[Slot(last.store, last.key)].expireAt = NoExpiration

(* ------------------------------ nil values ----------------------------- *)
\* C27: Wrap never returns a logically nil value together with a nil error:
\* a nil value read from the cache is a miss, and a nil value the source
\* returns without error becomes ErrNil (which Reuse, holding a cached
\* value, answers with that value), under each of the three policies.
C27_NeverNilNil ==
    last # NoLast =>
        /\ \A q \in DOMAIN last.ret :
              ~(isNil(last.ret[q].val) /\ last.ret[q].err = "nil")
        /\ last.cache = "hit" => ~isNil(last.cval)
        /\ (last.src = "ok" /\ isNil(last.sval)) =>
              \/ AllGot(ZeroT, "ErrNil")
              \/ /\ cfg.policy = "Reuse"
                 /\ last.cache = "hit"
                 /\ AllGot(last.cval, "nil")

\* the source returned nil without error after a cache read that found a
\* Box holding nil, and Wrap returned ErrNil
C27_Witness ==
    /\ last # NoLast
    /\ last.cache = "ErrNil"
    /\ last.src = "ok"
    /\ isNil(last.sval)
    /\ AllGot(ZeroT, "ErrNil")

(* ---------------------------- ErrCircuitOpen --------------------------- *)
\* the Wrap that ends in this step returns ErrCircuitOpen to every caller
ReturnsCircuitOpen ==
    \A q \in DOMAIN last'.ret : last'.ret[q] = [val |-> ZeroT, err |-> "ErrCircuitOpen"]

\* C28: when a plugin-wrapped loader, the cache loader or the source
\* loader, returns ErrCircuitOpen during a Wrap, Wrap returns ErrCircuitOpen
\* unchanged, under each of the three policies.
C28_CircuitOpenUnchanged ==
    [][/\ \A p \in Callers :
            (pc[p] = "query" /\ ~Checked(loc[p]) /\ pc'[p] = "idle")
                => ReturnsCircuitOpen
       /\ (last' # NoLast /\ last'.cache = "ErrCircuitOpen")
                => ReturnsCircuitOpen]_vars

(* ------------------------------ Mutex128 ------------------------------- *)
SameShard(i, j) == i % Mutex128Shards = j % Mutex128Shards

\* the tasks that hold the lock shard key i uses
HeldBy(i) == {p \in Callers : \E j \in lk[p].held : SameShard(i, j)}

\* C29: shard keys i and j use the same lock exactly when i mod 128 =
\* j mod 128; each shard has at most one holder; Lock blocks while the
\* shard is held and returns only once it is free; TryLock never blocks and
\* returns true exactly when the shard was free.
C29_ShardExclusion ==
    [][/\ \A p, q \in Callers : \A i \in lk'[p].held, j \in lk'[q].held :
              SameShard(i, j) => (p = q /\ i = j)
       /\ \A p \in Callers :
              /\ (lk[p].pc = "idle" /\ lk'[p].pc = "Lock") => HeldBy(lk'[p].shard) # {}
              /\ (lk[p].pc = "Lock" /\ lk'[p].pc = "idle") =>
                     /\ HeldBy(lk[p].shard) = {}
                     /\ lk[p].shard \in lk'[p].held
       /\ (last' # NoLast /\ last'.op = "Lock" /\ lk'[last'.p].pc = "idle") =>
              /\ HeldBy(last'.shard) = {}
              /\ last'.shard \in lk'[last'.p].held
       /\ (last' # NoLast /\ last'.op = "TryLock") =>
              /\ lk'[last'.p].pc = "idle"
              /\ last'.ret = (HeldBy(last'.shard) = {})
              /\ last'.ret => last'.shard \in lk'[last'.p].held
              /\ ~last'.ret => lk' = lk]_vars

\* a task holds shard key 1, another is blocked in Lock, and TryLock(129)
\* has returned false
C29_Witness ==
    /\ last # NoLast
    /\ last.op = "TryLock"
    /\ ~last.ret
    /\ last.shard = 1 + Mutex128Shards
    /\ \E q \in Callers : 1 \in lk[q].held
    /\ \E p \in Callers : lk[p].pc = "Lock"

(* ------------------------------ two keys ------------------------------- *)
\* C30: under First a refresh in flight for one key does not affect
\* another key: a Wrap that finds its entry with age >= D returns without
\* blocking and starts a refresh for its key unless a refresh of that same
\* key is in flight.
C30_KeysIndependent ==
    (last # NoLast /\ cfg.policy = "First" /\ last.cache = "hit" /\ ~last.young) =>
        /\ last.lock \in {"won", "lost"}
        /\ last.lock = "lost" => bg[last.key] > 0

(* --------------------------- the shard lock ---------------------------- *)
\* the shards whose lock a running refresh holds
RefreshShards(b) == {ShardOf(hashCrc32ToUint(k)) : k \in {x \in cfg.keys : b[x] > 0}}

OpenAtStart ==
    /\ last.before.circuitOpen
    /\ last.t0 - last.before.openedAt < cfg.CircuitResetAfter

\* C32: a call of the wrapped loader tries the underlying loader at most
\* MaxRetries + 1 times and stops at the first success; a call that uses up
\* its attempts counts as one failure; after CircuitFailureThreshold failed
\* calls in a row the circuit is open, and a call made before
\* CircuitResetAfter has elapsed returns ErrCircuitOpen without an attempt.
C32_RetryAndOpen ==
    (last # NoLast /\ last.op = "Load") =>
        /\ last.tried <= cfg.MaxRetries + 1
        /\ last.err = "nil" => (last.tried >= 1 /\ circuits[last.key].failures = 0)
        /\ last.err = "ErrLoad" =>
              /\ last.tried = cfg.MaxRetries + 1
              /\ circuits[last.key].failures = last.checked.failures + 1
              /\ rcall.streak >= cfg.CircuitFailureThreshold
                    => circuits[last.key].circuitOpen
        /\ OpenAtStart <=> (last.err = "ErrCircuitOpen")
        /\ last.err = "ErrCircuitOpen" =>
              /\ last.tried = 0
              /\ circuits[last.key] = last.before

\* two calls in a row used up their two attempts, and the call after them
\* returned ErrCircuitOpen
C32_Witness ==
    /\ last # NoLast
    /\ last.op = "Load"
    /\ last.err = "ErrCircuitOpen"
    /\ cfg.MaxRetries = 1
    /\ cfg.CircuitFailureThreshold = 2
    /\ rcall.streak = 2

\* the circuit was open and CircuitResetAfter had elapsed when the call
\* that last records began
ResetAtStart ==
    /\ last.before.circuitOpen
    /\ last.t0 - last.before.openedAt >= cfg.CircuitResetAfter

\* C33: once CircuitResetAfter has elapsed since the circuit opened, the
\* next call closes it, sets the failure count to 0 and invokes the
\* underlying loader; the circuit is open again only after another
\* CircuitFailureThreshold failed calls in a row; a successful call sets the
\* failure count to 0.
C33_ResetAndReopen ==
    /\ (last # NoLast /\ last.op = "Load" /\ ResetAtStart) =>
          /\ last.checked = [last.before EXCEPT !.circuitOpen = FALSE, !.failures = 0]
          /\ last.tried >= 1
    /\ (last # NoLast /\ last.op = "Load" /\ last.err = "nil") =>
          /\ circuits[last.key].failures = 0
          /\ ~circuits[last.key].circuitOpen
    /\ \A k \in cfg.keys :
          /\ circuits[k].circuitOpen => rcall.streak >= cfg.CircuitFailureThreshold
          /\ ~circuits[k].circuitOpen =>
                circuits[k].failures < cfg.CircuitFailureThreshold

\* a circuit that had opened was closed by a call made after the reset
\* time, and two more failed calls have opened it again
C33_Witness ==
    /\ last # NoLast
    /\ last.op = "Load"
    /\ last.err = "ErrLoad"
    /\ cfg.CircuitFailureThreshold = 2
    /\ rcall.streak = 2
    /\ circuits[last.key].circuitOpen
    /\ last.before.openedAt > 0
    /\ circuits[last.key].openedAt > last.before.openedAt

(* ------------------------- failed source calls ------------------------- *)
\* C34: a source call that returns an error never writes to the store: the
\* step in which the failed call of a Wrap returns leaves both stores as
\* they were, and the end of a refresh changes a store only by the SetStore
\* of a value its source returned without error.
C34_ErrorWritesNothing ==
    [][/\ \A p \in Callers :
            (pc[p] = "query" /\ pc'[p] = "idle" /\ last'.src = "err") =>
                (store' = store /\ cstore' = cstore /\ hist' = hist)
       /\ \A k \in cfg.keys :
            (bg'[k] < bg[k] /\ <<store', cstore'>> # <<store, cstore>>) =>
                \E st \in {"default", "ctx"} :
                    /\ hist'[st][k].set
                    /\ hist'[st][k].at = now
                    /\ hist'[st][k].ts = Unix(now)
                    /\ hist'[st][k] # hist[st][k]]_vars

\* a Reuse Wrap whose source call failed has returned the cached value, and
\* the store holds the entry it held before
C34_Witness ==
    /\ last # NoLast
    /\ cfg.policy = "Reuse"
    /\ last.cache = "hit"
    /\ last.src = "err"
    /\ ~last.wrote
    /\ hist[StoreOf(last.ctx)][last.key].set
    /\ hist[StoreOf(last.ctx)][last.key].at < now
    /\ hist[StoreOf(last.ctx)][last.key].val = last.cval

(* --------------------- the circuit, concurrent calls ------------------- *)
\* C35: once the circuit for a key has opened it stays open until
\* CircuitResetAfter has elapsed, for every interleaving of calls on the key.
C35_OpenUntilReset ==
    [][\A k \in cfg.keys :
          (circuits[k].circuitOpen /\ ~circuits'[k].circuitOpen) =>
              now - circuits[k].openedAt >= cfg.CircuitResetAfter]_vars

(* ---------------------- one circuit for two loaders -------------------- *)
\* what the wrapped cache loader of caller p returned in this step
CacheOutcome(p) == IF pc'[p] = "query" THEN loc'[p].cache ELSE last'.cache

\* the failure count checkCircuit leaves behind
CountAtStart(k) ==
    IF circuits[k].circuitOpen /\ now - circuits[k].openedAt >= cfg.CircuitResetAfter
    THEN 0 ELSE circuits[k].failures

\* a failed cache read, a key miss included, adds one to the failure count
\* of the key's circuit, a failed source call adds one to the same count,
\* and a successful cache read resets it
SharedCount(p) ==
    /\ (pc[p] = "cache" /\ pc'[p] # "cache") =>
          LET k == ckey[p] IN
          /\ CacheOutcome(p) = "hit" =>
                circuits'[k].failures = 0 /\ ~circuits'[k].circuitOpen
          /\ CacheOutcome(p) \notin {"hit", "ErrCircuitOpen"} =>
                circuits'[k].failures = CountAtStart(k) + 1
    /\ (pc[p] = "query" /\ Checked(loc[p]) /\ pc'[p] = "idle"
          /\ last'.src = "err") =>
          circuits'[ckey[p]].failures = circuits[ckey[p]].failures + 1

\* with CircuitFailureThreshold = 1 the cache read that misses opens the
\* circuit, and the source loader that finds it open, less than
\* CircuitResetAfter later, returns ErrCircuitOpen without a source call
ColdKey(p) ==
    LET k == ckey[p] IN
    /\ (pc[p] = "cache" /\ pc'[p] = "query" /\ loc'[p].cache = "ErrNil"
          /\ cfg.CircuitFailureThreshold = 1) =>
          circuits'[k] = [failures |-> 1, circuitOpen |-> TRUE, openedAt |-> now]
    /\ (pc[p] = "query" /\ ~Checked(loc[p]) /\ loc'[p] # loc[p]
          /\ loc[p].cache = "ErrNil"
          /\ circuits[k].circuitOpen
          /\ now - circuits[k].openedAt < cfg.CircuitResetAfter) =>
          (pc'[p] = "idle" /\ ReturnsCircuitOpen)

OtherHeld(c, k) == IF c.store THEN OwnHeld(k) ELSE CtxHeld(k)

\* C38: Wrap calls on one key that overlap are coalesced whatever stores
\* their contexts carry: a caller that arrives while a call is executing
\* waits, the executing caller's steps leave the store it does not use as
\* it was, and every caller of the call receives the executing caller's
\* result.
C38_CoalescedAcrossStores ==
    [][/\ \A q \in Callers :
             (pc[q] = "idle" /\ pc'[q] # "idle" /\ InFlight(ckey'[q])) =>
                 (pc'[q] = "wait" /\ store' = store /\ cstore' = cstore)
       /\ \A p \in Callers :
             (pc[p] \in {"cache", "query"} /\ pc'[p] # pc[p]) =>
                 IF ctx[p].store THEN store' = store ELSE cstore' = cstore
       /\ (last' # NoLast /\ last'.op = "Wrap") =>
             /\ \A q \in DOMAIN last'.ret : last'.ret[q] = last'.ret[last'.leader]
             /\ (last'.cache = "hit" /\ last'.src = "none") =>
                   \A q \in DOMAIN last'.ret :
                       last'.ret[q] = [val |-> last'.cval, err |-> "nil"]]_vars

\* two callers whose contexts carry different stores shared one result, a
\* value of the executing caller's store, while the other store held
\* another value
C38_Witness ==
    /\ last # NoLast
    /\ last.op = "Wrap"
    /\ Cardinality(DOMAIN last.ret) = 2
    /\ last.stores = {"default", "ctx"}
    /\ last.cache = "hit"
    /\ last.src = "none"
    /\ AllGot(last.cval, "nil")
    /\ OtherHeld(last.ctx, last.key) # NoEntry
    /\ ~isNil(OtherHeld(last.ctx, last.key).T)
    /\ OtherHeld(last.ctx, last.key).T # last.cval

(* ----------------------- a nil value over a hit ------------------------ *)
\* the Reuse Wrap that ended found v0 with age >= D and its source returned
\* a nil value without error
NilOverHit ==
    /\ last # NoLast /\ last.op = "Wrap" /\ cfg.policy = "Reuse"
    /\ last.cache = "hit" /\ ~last.young
    /\ last.src = "ok" /\ isNil(last.sval)

\* the Reuse Wrap that ended found a nil Box and its source call failed
FailOverNil ==
    /\ last # NoLast /\ last.op = "Wrap" /\ cfg.policy = "Reuse"
    /\ last.cache = "ErrNil" /\ last.src = "err"

\* C39: under Reuse, when the cache holds a non-nil v0 with age >= D and the
\* source returns a nil value without error, the Wrap returns (v0, nil) and
\* the store entry is overwritten with a nil Box; a later Wrap that finds
\* the nil Box and whose source call fails returns the source's error.
C39_NilBoxLosesFallback ==
    /\ NilOverHit =>
          /\ ~isNil(last.cval)
          /\ AllGot(last.cval, "nil")
          /\ last.wrote =>
                /\ hist[StoreOf(last.ctx)][last.key] =
                       [set |-> TRUE, val |-> NilT, ts |-> Unix(now), at |-> now,
                        orphan |-> FALSE, refresh |-> FALSE]
                /\ loadCache(last.ctx, last.key, FALSE).err = "ErrNil"
    /\ FailOverNil => AllGot(ZeroT, "ErrSource")

\* the Wrap returned v0 and left a nil Box where v0 was
C39_Witness ==
    /\ NilOverHit
    /\ last.wrote
    /\ AllGot(last.cval, "nil")
    /\ loadCache(last.ctx, last.key, FALSE).err = "ErrNil"

\* a later Wrap found the nil Box, written earlier, and returned the error
FailAfterNilBox ==
    /\ FailOverNil
    /\ hist[StoreOf(last.ctx)][last.key].set
    /\ isNil(hist[StoreOf(last.ctx)][last.key].val)
    /\ hist[StoreOf(last.ctx)][last.key].at < now
    /\ AllGot(ZeroT, "ErrSource")

(* --------------------- the store of the refresh ------------------------ *)
\* C40: the refresh of the First policy writes to the store the Wrap that
\* started it read from: its context carries the store of that Wrap's
\* context, and when it ends only that store can have changed.
C40_RefreshKeepsStore ==
    [][\A k \in cfg.keys :
          /\ bg'[k] > bg[k] =>
                /\ bgctx'[k].store = last'.ctx.store
                /\ last'.cache = "hit"
                /\ last'.cval = (IF last'.ctx.store THEN CtxHeld(k) ELSE OwnHeld(k)).T
          /\ bg'[k] < bg[k] =>
                /\ IF bgctx[k].store
                   THEN store' = store /\ hist'["default"] = hist["default"]
                   ELSE cstore' = cstore /\ hist'["ctx"] = hist["ctx"]
                /\ hist'[StoreOf(bgctx[k])] # hist[StoreOf(bgctx[k])] =>
                      /\ hist'[StoreOf(bgctx[k])][k].refresh
                      /\ hist'[StoreOf(bgctx[k])][k].at = now]_vars

\* a refresh started by a Wrap whose context carried a store has written
\* its value there, and the controller's store does not hold that value
C40_Witness ==
    \E k \in cfg.keys :
        /\ cfg.policy = "First"
        /\ hist["ctx"][k].set
        /\ hist["ctx"][k].refresh
        /\ hist["ctx"][k].at = now
        /\ CtxHeld(k) # NoEntry
        /\ CtxHeld(k).T = hist["ctx"][k].val
        /\ (OwnHeld(k) = NoEntry \/ OwnHeld(k).T # hist["ctx"][k].val)

====
